---- MODULE Spec2Model ----
(***************************************************************************)
(* JiraMetricWorks: the status-transition pipeline (export_csv.py) and the *)
(* worker-pool fan-out that runs it over the keys of a JQL search          *)
(* (export_csv, build_timeline_data, analyze_sprint_patterns).             *)
(*                                                                         *)
(* Time is counted in whole hours.  A raw timestamp string of the REST     *)
(* payload is a record: [kind |-> "iso", t |-> n] parses to the instant n, *)
(* [kind |-> "garbage"] makes dateutil's parser raise, [kind |-> "none"]   *)
(* is a missing / null value.  Python's None and "" for a status name are  *)
(* both the empty string (both are falsy and the code only tests           *)
(* truthiness).                                                            *)
(***************************************************************************)
EXTENDS Integers, Sequences, FiniteSets, TLC

(***************************************************************************)
(* Bounds of the model.                                                    *)
(***************************************************************************)
\* most keys search_jql returns in a modelled run
MaxKeys == 3
\* the wall clock reads between ClockLo and ClockLo + ClockSpan
ClockSpan == 1

\* export_csv.py:7, timeline_report.py:15, sprint_analysis.py:9
CONCURRENT_WORKERS == 12

Min(a, b) == IF a <= b THEN a ELSE b
Max(a, b) == IF a >= b THEN a ELSE b

\* F(e), with the value of e computed one time: a local variable of the code
Once(F(_), e) == CHOOSE r \in {F(v) : v \in {e}} : TRUE

(***************************************************************************)
(* Payloads.                                                               *)
(***************************************************************************)
Iso(n) == [kind |-> "iso", t |-> n]
Garbage == [kind |-> "garbage"]
NoneTime == [kind |-> "none"]

\* dateutil.parser.parse raises on None and on a string that is no date
dtparser_raises(raw) == raw.kind # "iso"
dtparser_parse(raw) == raw.t

\* Python truthiness of an optional string
Truthy(s) == s # ""

StatusItem(frm, to) == [field |-> "status", fromString |-> frm, toString |-> to]
OtherItem(fld) == [field |-> fld, fromString |-> "", toString |-> "x"]
History(raw, items) == [created |-> raw, items |-> items]

(***************************************************************************)
(* export_csv.extract_status_changes                                       *)
(***************************************************************************)
\* a variant without the test of the item's field
RECURSIVE StatusItems_AnyField(_, _)
StatusItems_AnyField(items, when) ==
    IF items = <<>> THEN <<>>
    ELSE << <<Head(items).fromString, Head(items).toString, when>> >>
         \o StatusItems_AnyField(Tail(items), when)

RECURSIVE StatusItems(_, _)
StatusItems(items, when) ==
    IF items = <<>> THEN <<>>
    ELSE (IF Head(items).field = "status"
          THEN << <<Head(items).fromString, Head(items).toString, when>> >>
          ELSE <<>>)
         \o StatusItems(Tail(items), when)

RECURSIVE CollectChanges(_)
CollectChanges(histories) ==
    IF histories = <<>> THEN <<>>
    ELSE StatusItems(Head(histories).items, dtparser_parse(Head(histories).created))
         \o CollectChanges(Tail(histories))

\* list.sort(key=lambda x: x[2]) is stable: x goes behind the elements whose
\* key is not greater
RECURSIVE InsertByWhen(_, _)
InsertByWhen(x, s) ==
    IF s = <<>> THEN <<x>>
    ELSE IF x[3] < Head(s)[3] THEN <<x>> \o s
    ELSE <<Head(s)>> \o InsertByWhen(x, Tail(s))

RECURSIVE SortByWhen(_)
SortByWhen(s) ==
    IF s = <<>> THEN <<>>
    ELSE Once(LAMBDA sorted : InsertByWhen(s[Len(s)], sorted),
              SortByWhen(SubSeq(s, 1, Len(s) - 1)))

\* line 13 parses the timestamp of every history entry, before looking at its items
extract_raises(issue) ==
    \E i \in 1..Len(issue.changelog) : dtparser_raises(issue.changelog[i].created)

extract_status_changes(issue) ==
    Once(LAMBDA changes : SortByWhen(changes), CollectChanges(issue.changelog))

(***************************************************************************)
(* export_csv.count_sequence_occurrences                                   *)
(***************************************************************************)
needed_pairs(sequence) ==
    [k \in 1..(Len(sequence) - 1) |-> <<sequence[k], sequence[k + 1]>>]

\* the while loop; i and pair_index are 0-based as in the code
RECURSIVE count_loop(_, _, _, _, _)
count_loop(changes, np, i, pair_index, count) ==
    IF ~(i < Len(changes)) THEN count
    ELSE LET frm == changes[i + 1][1]
             to == changes[i + 1][2]
             need == np[pair_index + 1]
         IN  IF frm = need[1] /\ to = need[2]
             THEN IF pair_index + 1 = Len(np)
                  THEN count_loop(changes, np, i + 1, 0, count + 1)
                  ELSE count_loop(changes, np, i + 1, pair_index + 1, count)
             ELSE IF frm = np[1][1] /\ to = np[1][2]
                  THEN count_loop(changes, np, i + 1, 1, count)
                  ELSE count_loop(changes, np, i + 1, 0, count)

count_sequence_occurrences(changes, sequence) ==
    IF Len(sequence) < 2 THEN 0
    ELSE count_loop(changes, needed_pairs(sequence), 0, 0, 0)

(***************************************************************************)
(* export_csv.get_comment_metrics                                          *)
(***************************************************************************)
Comment(body, displayName, accountId) ==
    [body |-> body, displayName |-> displayName, accountId |-> accountId]

RECURSIVE total_length(_)
total_length(comments) ==
    IF comments = <<>> THEN 0
    ELSE Len(Head(comments).body) + total_length(Tail(comments))

comment_author(c) == IF Truthy(c.displayName) THEN c.displayName ELSE c.accountId

get_comment_metrics(issue) ==
    LET comments == issue.fields.comment
    IN  [comment_count |-> Len(comments),
         comment_length |-> total_length(comments),
         commenter_count |->
             Cardinality({comment_author(comments[i]) : i \in 1..Len(comments)}
                         \ {""})]

(***************************************************************************)
(* export_csv.compute_time_in_status, wall-clock mode (bh_cfg is empty).   *)
(* `now` is what datetime.now() returns when line 34 / 38 runs.            *)
(***************************************************************************)
time_in_status_raises(issue) ==
    \/ extract_raises(issue)
    \/ issue.fields.created.kind = "garbage"

\* a variant that opens no segment at the creation time
segments_of_NoInitial(issue, changes, now) ==
    IF changes # <<>>
    THEN [i \in 1..Len(changes) |->
             <<changes[i][2], changes[i][3],
               IF i < Len(changes) THEN changes[i + 1][3] ELSE now>>]
    ELSE IF issue.fields.created.kind = "iso" /\ Truthy(issue.fields.status.name)
         THEN << <<issue.fields.status.name, issue.fields.created.t, now>> >>
         ELSE <<>>

\* a variant that builds nothing for an issue without changes
segments_of_NoDegenerate(issue, changes, now) ==
    IF changes # <<>>
    THEN (IF issue.fields.created.kind = "iso"
          THEN << <<(IF Truthy(changes[1][1]) THEN changes[1][1]
                     ELSE issue.fields.status.name),
                    issue.fields.created.t, changes[1][3]>> >>
          ELSE <<>>)
         \o [i \in 1..Len(changes) |->
                <<changes[i][2], changes[i][3],
                  IF i < Len(changes) THEN changes[i + 1][3] ELSE now>>]
    ELSE <<>>

\* lines 24-38, given the changes of line 23
segments_of(issue, changes, now) ==
    LET fields == issue.fields
        has_created == fields.created.kind = "iso"
        created == fields.created.t
        current_status == fields.status.name
    IN  IF changes # <<>>
        THEN LET first_change_time == changes[1][3]
                 initial_status == IF Truthy(changes[1][1]) THEN changes[1][1]
                                   ELSE fields.status.name
             IN  (IF has_created
                  THEN << <<initial_status, created, first_change_time>> >>
                  ELSE <<>>)
                 \o [i \in 1..Len(changes) |->
                        <<changes[i][2], changes[i][3],
                          IF i < Len(changes) THEN changes[i + 1][3] ELSE now>>]
        ELSE IF has_created /\ Truthy(current_status)
             THEN << <<current_status, created, now>> >>
             ELSE <<>>

build_segments(issue, now) ==
    Once(LAMBDA changes : segments_of(issue, changes, now),
         extract_status_changes(issue))

\* timedelta.total_seconds() of a difference of instants
SecondsPerHour == 3600
total_seconds(delta) == delta * SecondsPerHour

\* a variant that keeps the hours of the last segment of each status
RECURSIVE accumulate_Overwrite(_, _)
accumulate_Overwrite(segments, totals) ==
    IF segments = <<>> THEN totals
    ELSE LET status == Head(segments)[1]
             hours == total_seconds(Head(segments)[3] - Head(segments)[2])
                      \div SecondsPerHour
         IN  IF ~Truthy(status) THEN accumulate_Overwrite(Tail(segments), totals)
             ELSE accumulate_Overwrite(Tail(segments),
                    IF status \in DOMAIN totals
                    THEN [totals EXCEPT ![status] = Max(0, hours)]
                    ELSE totals @@ (status :> Max(0, hours)))

\* lines 39-46: the per-status running sum; line 43 turns the seconds of
\* (e - s) into hours
RECURSIVE accumulate(_, _)
accumulate(segments, totals) ==
    IF segments = <<>> THEN totals
    ELSE LET status == Head(segments)[1]
             hours == total_seconds(Head(segments)[3] - Head(segments)[2])
                      \div SecondsPerHour
         IN  IF ~Truthy(status) THEN accumulate(Tail(segments), totals)
             ELSE accumulate(Tail(segments),
                    IF status \in DOMAIN totals
                    THEN [totals EXCEPT ![status] = @ + Max(0, hours)]
                    ELSE totals @@ (status :> Max(0, hours)))

EmptyDict == [x \in {} |-> 0]

compute_time_in_status(issue, now) ==
    Once(LAMBDA segments : accumulate(segments, EmptyDict), build_segments(issue, now))

(***************************************************************************)
(* What GET /issue/<key> can answer, decided when the request is made:     *)
(*   "http_error"  raise_for_status raises (jira_client.py:35)             *)
(*   "plain"       an issue with two status changes, delivered newest      *)
(*                 first, and one comment                                  *)
(*   "malformed"   an issue one of whose history entries carries a         *)
(*                 timestamp dateutil cannot parse                         *)
(***************************************************************************)
ResponseKinds == {"http_error", "plain", "malformed"}

IssueOf(k, kind) ==
    [key |-> k,
     fields |-> [created |-> Iso(0),
                 status |-> [name |-> "Done"],
                 comment |-> << Comment("ok", "ann", "a1") >>],
     changelog |->
        IF kind = "plain"
        THEN << History(Iso(k + 1), << StatusItem("InProgress", "Done") >>),
                History(Iso(k), << OtherItem("assignee"),
                                   StatusItem("Open", "InProgress") >>) >>
        ELSE << History(Iso(k), << StatusItem("Open", "InProgress") >>),
                History(Garbage, << StatusItem("InProgress", "Done") >>) >>]

\* the instants datetime.now() can return during a run: later than every
\* timestamp of the payloads
ClockLo == MaxKeys + 2
Clock == ClockLo..(ClockLo + ClockSpan)

(***************************************************************************)
(* The configuration of the modelled export_csv run (cfg): every metric    *)
(* on, no business hours (wall-clock mode), one selected field, one        *)
(* transition rule.                                                        *)
(***************************************************************************)
sel_ids == << "status" >>
trules == << [name |-> "done_path", sequence |-> << "Open", "InProgress", "Done" >>] >>

\* main.py _format_field for the dict-valued field `status`: its "name"
format_field_fn(fid, val) == val.name

row_fields_of(issue) ==
    [name \in {sel_ids[i] : i \in 1..Len(sel_ids)} |->
        format_field_fn(name, issue.fields[name])]

tr_counts_for(changes) ==
    [name \in {trules[i].name : i \in 1..Len(trules)} |->
        LET tr == CHOOSE t \in {trules[i] : i \in 1..Len(trules)} : t.name = name
        IN  count_sequence_occurrences(changes, tr.sequence)]

tr_counts_of(issue) ==
    Once(LAMBDA changes : tr_counts_for(changes), extract_status_changes(issue))

\* export_csv.py:127-140; raises when a timestamp of the issue does not parse
export_pipeline_raises(issue) == extract_raises(issue) \/ time_in_status_raises(issue)

\* export_csv.py:145-151
export_record(issue, now) ==
    [key |-> issue.key,
     fields |-> row_fields_of(issue),
     tr |-> tr_counts_of(issue),
     cm |-> get_comment_metrics(issue),
     tis |-> compute_time_in_status(issue, now)]

\* export_csv.py:155-162
export_error_record(key, text) ==
    [key |-> key, fields |-> EmptyDict, tr |-> EmptyDict, cm |-> EmptyDict,
     tis |-> EmptyDict, error |-> text]

(***************************************************************************)
(* timeline_report.build_timeline_data: the worker's records and the       *)
(* single-threaded processing after q.join().  status_order tracks         *)
(* "InProgress" and "Done"; start_date and end_date are not given.         *)
(***************************************************************************)
status_order == [InProgress |-> 1, Done |-> 2]

PyNone == [py_none |-> TRUE]

\* timeline_report.py:146-150
timeline_record(key, issue) ==
    [key |-> key, transitions |-> extract_status_changes(issue), issue |-> issue]

\* timeline_report.py:155-160
timeline_error_record(key, text) ==
    [key |-> key, transitions |-> <<>>, issue |-> PyNone, error |-> text]

\* timeline_report.py:186-190: index of the first transition into a tracked
\* status, 0 when there is none
first_tracked_idx(transitions) ==
    LET hits == {i \in 1..Len(transitions) : transitions[i][2] \in DOMAIN status_order}
    IN  IF hits = {} THEN 0 ELSE CHOOSE i \in hits : \A j \in hits : i <= j

\* timeline_report.py:197-229: the segments of one issue; final_end is
\* end_date or datetime.now(tz.UTC)
timeline_segments(transitions, final_end) ==
    LET f == first_tracked_idx(transitions)
        n == Len(transitions)
    IN  [i \in 1..(n - f + 1) |->
            [status |-> transitions[f + i - 1][2],
             start |-> transitions[f + i - 1][3],
             end |-> IF f + i - 1 < n THEN transitions[f + i][3] ELSE final_end,
             tracked |-> transitions[f + i - 1][2] \in DOMAIN status_order]]

\* timeline_report.py:178-235: the loop over issues_data
RECURSIVE process_issues(_, _)
process_issues(issues_data, final_end) ==
    IF issues_data = <<>> THEN <<>>
    ELSE LET d == Head(issues_data)
             rest == process_issues(Tail(issues_data), final_end)
         IN  IF "error" \in DOMAIN d THEN rest
             ELSE IF first_tracked_idx(d.transitions) = 0 THEN rest
             ELSE << [key |-> d.key,
                      segments |-> timeline_segments(d.transitions, final_end)] >>
                  \o rest

(***************************************************************************)
(* sprint_analysis.analyze_sprint_patterns: the rows of one issue.  Unless *)
(* a specification says otherwise the sprint starts at hour 0 and lasts    *)
(* SprintDays days.                                                        *)
(***************************************************************************)
HoursPerDay == 24
SprintDays == 14

\* the two date arguments of the call: (sprint_start_str, sprint_end_str) of
\* analyze_sprint_patterns, (start_date, end_date) of build_timeline_data
VARIABLE window

\* lines 55-56: a date string that does not parse, or None, makes the call
\* raise ValueError
sprint_dates_raise == dtparser_raises(window[1]) \/ dtparser_raises(window[2])

sprint_start == dtparser_parse(window[1])
\* a sprint end at midnight is moved to the end of that day (lines 64-66)
sprint_end ==
    LET parsed == dtparser_parse(window[2])
    IN  IF parsed % HoursPerDay = 0 THEN parsed + (HoursPerDay - 1) ELSE parsed

\* a variant that rejects unparsable dates only
sprint_rejects_FormatOnly == sprint_dates_raise

\* lines 53-72: the call is rejected
sprint_rejects == sprint_dates_raise \/ sprint_start >= sprint_end

\* datetime.date(): the calendar day of an instant
DateOf(t) == t \div HoursPerDay

\* sprint_analysis.py:11-17
RECURSIVE filter_transitions_by_sprint_dates(_, _, _)
filter_transitions_by_sprint_dates(transitions, s_start, s_end) ==
    IF transitions = <<>> THEN <<>>
    ELSE (IF s_start <= Head(transitions)[3] /\ Head(transitions)[3] <= s_end
          THEN << Head(transitions) >> ELSE <<>>)
         \o filter_transitions_by_sprint_dates(Tail(transitions), s_start, s_end)

\* round(x, 1) of num/den percent, kept in tenths of a percent
RoundTenths(num, den) == (2000 * num + den) \div (2 * den)

\* sprint_analysis.py:19-36
calculate_sprint_metrics(transition_date, s_start, s_end) ==
    LET sprint_duration == (s_end - s_start) \div HoursPerDay
        days_from_start == DateOf(transition_date) - DateOf(s_start)
        days_to_end == DateOf(s_end) - DateOf(transition_date)
    IN  [sprint_day |-> days_from_start + 1,
         days_from_sprint_start |-> days_from_start,
         days_to_sprint_end |-> days_to_end,
         sprint_progress_percent |->
             IF sprint_duration > 0 THEN RoundTenths(days_from_start, sprint_duration)
             ELSE 0]

\* sprint_analysis.py:105-125; transition_date is <<t>> for isoformat(t), <<>> for ''
sprint_rows(issue) ==
    LET sprint_transitions ==
            filter_transitions_by_sprint_dates(extract_status_changes(issue),
                                               sprint_start, sprint_end)
    IN  [i \in 1..Len(sprint_transitions) |->
            [issue_key |-> issue.key,
             from_status |-> sprint_transitions[i][1],
             to_status |-> sprint_transitions[i][2],
             transition_date |-> << sprint_transitions[i][3] >>]
            @@ calculate_sprint_metrics(sprint_transitions[i][3], sprint_start, sprint_end)]

\* sprint_analysis.py:134-144
sprint_error_row(key, text) ==
    [issue_key |-> key, from_status |-> "ERROR", to_status |-> "ERROR",
     transition_date |-> <<>>, sprint_day |-> 0, days_from_sprint_start |-> 0,
     days_to_sprint_end |-> 0, sprint_progress_percent |-> 0, error |-> text]

\* results.sort(key=lambda x: x.get('transition_date', '')): stable, '' first
DateKeyLess(a, b) == IF b = <<>> THEN FALSE ELSE IF a = <<>> THEN TRUE ELSE a[1] < b[1]

RECURSIVE InsertByDate(_, _)
InsertByDate(x, s) ==
    IF s = <<>> THEN <<x>>
    ELSE IF DateKeyLess(x.transition_date, Head(s).transition_date) THEN <<x>> \o s
    ELSE <<Head(s)>> \o InsertByDate(x, Tail(s))

RECURSIVE SortByDate(_)
SortByDate(s) ==
    IF s = <<>> THEN <<>>
    ELSE Once(LAMBDA sorted : InsertByDate(s[Len(s)], sorted),
              SortByDate(SubSeq(s, 1, Len(s) - 1)))

(***************************************************************************)
(* The fan-out: one run of export_csv, build_timeline_data or              *)
(* analyze_sprint_patterns.  The main thread resolves the keys, fills the  *)
(* queue, starts the worker threads one after the other and waits in       *)
(* q.join(); each worker loops over get_nowait / get_issue / pipeline /    *)
(* locked append / task_done / progress callback.                          *)
(***************************************************************************)
VARIABLES
    fn,           \* the function that runs
    keys,         \* what search_jql returned
    clock,        \* the wall clock, what datetime.now() returns
    mpc,          \* where the main thread is
    started,      \* number of worker threads started so far
    q,            \* Queue: the keys not yet claimed
    unfinished,   \* Queue.unfinished_tasks: put() minus task_done()
    results,      \* results / issues_data
    all_statuses, \* export_csv only
    lock,         \* 0 when free, else the worker that holds it
    done_count,
    pc,           \* worker -> where it is
    key,          \* worker -> the key it claimed (0: none)
    issue,        \* worker -> kind of the issue get_issue returned ("": none)
    rec,          \* worker -> what its pipeline computed (<<>>: nothing yet)
    err,          \* worker -> str(e) of the exception it caught ("": none)
    arg,          \* worker -> the done_count it loaded for the progress call
    progress,     \* the progress_cb invocations so far, in the order they happen
    ret,          \* what the function returned (<<>> until it returns)
    call,         \* the function applied to `input` on its own ("none": none)
    input,        \* the issue that function is applied to
    out,          \* what it returned or raised
    http,         \* key -> the get_issue calls made for it, each with its
                  \* HTTP responses and sleeps (followed in SpecRetry)
    queries,      \* JQLManager.queries, the in-memory list
    config_file   \* what the file at JQLManager.config_file holds

vars == <<fn, keys, clock, mpc, started, q, unfinished, results, all_statuses,
          lock, done_count, pc, key, issue, rec, err, arg, progress, ret,
          window, call, input, out, http, queries, config_file>>

Functions == {"export_csv", "build_timeline_data", "analyze_sprint_patterns"}

\* The pool the model runs: the code's, capped at two threads, so that runs
\* with more keys than workers stay checkable as MaxKeys grows.
PoolSize == Min(CONCURRENT_WORKERS, 2)
\* the thread objects a run could create; the code starts PoolSize of them
Workers == 1..Max(PoolSize, MaxKeys)
\* the ones the code starts
Pool == 1..PoolSize

total == Len(keys)

Stage1Name ==
    CASE fn = "export_csv" -> "Stage 1/2: Downloading issues..."
      [] fn = "build_timeline_data" -> "Analyzing issue history..."
      [] OTHER -> "Stage 1/2: Analyzing sprint transitions..."

Stage2Name ==
    CASE fn = "export_csv" -> "Stage 2/2: Writing CSV..."
      [] OTHER -> "Building timeline..."

\* the code between get_issue and `with lock` of function f, for the issue
\* of key k: whether it raises, and what it leaves in the worker's locals
PipelineRaises(f, iss) ==
    IF f = "export_csv" THEN export_pipeline_raises(iss) ELSE extract_raises(iss)

PipelineResult(f, k, iss, now) ==
    CASE f = "export_csv" -> << export_record(iss, now) >>
      [] f = "build_timeline_data" -> << timeline_record(k, iss) >>
      [] OTHER -> sprint_rows(iss)

Call(stage, done, tot) == [stage |-> stage, done |-> done, total |-> tot]

\* the date arguments of the call unless a specification says otherwise: a
\* sprint of SprintDays days from hour 0; no start_date and no end_date
DefaultWindow(f) ==
    IF f = "analyze_sprint_patterns" THEN << Iso(0), Iso(SprintDays * HoursPerDay) >>
    ELSE << NoneTime, NoneTime >>

\* date arguments a caller can pass: sprint date strings that parse to the
\* start, the tenth hour and the start of the next day, or do not parse;
\* start_date absent or at day 2, 3 or 4, end_date absent or at day 2 or 4
Windows(f) ==
    IF f = "analyze_sprint_patterns"
    THEN {<< a, b >> : a \in {Iso(0), Iso(10), Iso(HoursPerDay), Garbage},
                       b \in {Iso(0), Iso(10), Iso(HoursPerDay)}}
    ELSE {<< a, b >> : a \in {NoneTime, Iso(2 * HoursPerDay), Iso(3 * HoursPerDay),
                             Iso(4 * HoursPerDay)},
                       b \in {NoneTime, Iso(2 * HoursPerDay), Iso(4 * HoursPerDay)}}

\* the state when the function is entered with at most nkeys keys to come
FanoutInit(fns, nkeys, any_window) ==
    /\ fn \in fns
    /\ \E n \in 0..nkeys : keys = [i \in 1..n |-> i]
    /\ window \in (IF any_window THEN Windows(fn) ELSE {DefaultWindow(fn)})
    /\ call = "none"
    /\ input = PyNone
    /\ out = <<>>
    /\ clock = ClockLo
    /\ mpc = "setup"
    /\ started = 0
    /\ q = <<>>
    /\ unfinished = 0
    /\ results = <<>>
    /\ all_statuses = {}
    /\ lock = 0
    /\ done_count = 0
    /\ pc = [w \in Workers |-> "unstarted"]
    /\ key = [w \in Workers |-> 0]
    /\ issue = [w \in Workers |-> ""]
    /\ rec = [w \in Workers |-> <<>>]
    /\ err = [w \in Workers |-> ""]
    /\ arg = [w \in Workers |-> 0]
    /\ progress = <<>>
    /\ ret = <<>>
    /\ http = [k \in DOMAIN keys |-> <<>>]
    /\ queries = <<>>
    /\ config_file = [exists |-> FALSE]

InitOf(fns) == FanoutInit(fns, MaxKeys, FALSE)

Init == InitOf({"export_csv"})

\* timeline_report.py:114-120 and 239-245
EmptyTimeline ==
    [issues |-> <<>>, timeline_start |-> PyNone, timeline_end |-> PyNone,
     status_order |-> status_order]

\* all_dates of timeline_report.py:205, 216, 230
all_dates(processed) ==
    UNION {{processed[i].segments[j].start : j \in 1..Len(processed[i].segments)}
           \cup {processed[i].segments[j].end : j \in 1..Len(processed[i].segments)} :
           i \in 1..Len(processed)}

SetMin(S) == CHOOSE x \in S : \A y \in S : x <= y
SetMax(S) == CHOOSE x \in S : \A y \in S : x >= y

\* the arguments start_date and end_date of build_timeline_data: a datetime
\* or None
start_date == window[1]
end_date == window[2]

\* timeline_report.py:223: final_end = end_date or datetime.now(tz.UTC)
final_end == IF end_date.kind = "iso" THEN end_date.t ELSE clock

\* timeline_report.py:175-280: what build_timeline_data returns for issues_data
timeline_return(issues_data) ==
    LET processed == process_issues(issues_data, final_end)
    IN  IF processed = <<>> THEN EmptyTimeline
        ELSE [issues |-> processed,
              timeline_start |-> IF start_date.kind = "iso" THEN start_date.t
                                 ELSE SetMin(all_dates(processed)),
              timeline_end |-> IF end_date.kind = "iso" THEN end_date.t
                               ELSE SetMax(all_dates(processed)),
              status_order |-> status_order]

\* a variant that clips the start only
clip_StartOnly(segment, tl_start, tl_end) ==
    [status |-> segment.status,
     start |-> Max(segment.start, tl_start),
     end |-> segment.end,
     tracked |-> segment.tracked]

\* max(segment['start'], timeline_start), min(segment['end'], timeline_end)
clip(segment, tl_start, tl_end) ==
    [status |-> segment.status,
     start |-> Max(segment.start, tl_start),
     end |-> Min(segment.end, tl_end),
     tracked |-> segment.tracked]

clip_all(segments, tl_start, tl_end) ==
    [i \in 1..Len(segments) |-> clip(segments[i], tl_start, tl_end)]

\* timeline_report.py:293-302: the clipped segments that are added to
\* time_by_status
IsCounted(c) == c.tracked /\ c.end > c.start
counted_segments(segments, tl_start, tl_end) ==
    SelectSeq(clip_all(segments, tl_start, tl_end), IsCounted)

\* timeline_report.py:458-463: the clipped segments that get a <div>
IsRendered(c) == ~(c.end <= c.start)
rendered_segments(segments, tl_start, tl_end) ==
    SelectSeq(clip_all(segments, tl_start, tl_end), IsRendered)

RECURSIVE seconds_in(_, _, _)
seconds_in(counted, status, n) ==
    IF n = 0 THEN 0
    ELSE seconds_in(counted, status, n - 1)
         + (IF counted[n].status = status
            THEN total_seconds(counted[n].end - counted[n].start) ELSE 0)

\* timeline_report.py:284-305
calculate_time_in_status(segments, tl_start, tl_end) ==
    Once(LAMBDA counted :
            [status \in {counted[i].status : i \in 1..Len(counted)} |->
                seconds_in(counted, status, Len(counted))],
         counted_segments(segments, tl_start, tl_end))

\* generate_html_report, lines 334-341 and 452-506: per issue the rendered
\* segments and the summary row; nothing when there is no data
html_rows(data) ==
    IF data.issues = <<>> THEN <<>>
    ELSE [i \in 1..Len(data.issues) |->
            [key |-> data.issues[i].key,
             rendered |-> rendered_segments(data.issues[i].segments,
                                            data.timeline_start, data.timeline_end),
             counted |-> counted_segments(data.issues[i].segments,
                                          data.timeline_start, data.timeline_end),
             time_in_status |-> calculate_time_in_status(data.issues[i].segments,
                                          data.timeline_start, data.timeline_end)]]

(***************************************************************************)
(* Main thread.                                                            *)
(***************************************************************************)
\* export_csv.py:100-116, timeline_report.py:109-131, sprint_analysis.py:75-90:
\* no worker exists yet
Setup ==
    /\ mpc = "setup"
    /\ LET pre == CASE fn = "export_csv" -> <<>>
                    [] fn = "build_timeline_data" -> << Call("Fetching issues...", 0, 1) >>
                    [] OTHER -> << Call("Getting issue list...", 0, 1) >>
       IN  IF fn = "analyze_sprint_patterns" /\ sprint_rejects
           THEN \* sprint_analysis.py:53-72: raise ValueError(...)
                /\ ret' = [raises |-> "ValueError"]
                /\ mpc' = "raised"
                /\ UNCHANGED <<q, unfinished, progress>>
           ELSE IF total = 0 /\ fn # "export_csv"
           THEN /\ progress' = pre
                /\ ret' = (IF fn = "build_timeline_data" THEN EmptyTimeline
                           ELSE [headers |-> << "issue_key" >>, rows |-> <<>>])
                /\ mpc' = "returned"
                /\ UNCHANGED <<q, unfinished>>
           ELSE /\ q' = keys
                /\ unfinished' = Len(keys)
                /\ progress' = pre \o << Call(Stage1Name, 0, total) >>
                /\ mpc' = "start"
                /\ UNCHANGED ret
    /\ UNCHANGED <<http, queries, config_file,
                   window, call, input, out, fn, keys, clock, started, results, all_statuses, lock,
                   done_count, pc, key, issue, rec, err, arg>>

\* a variant that starts one thread per key
StartThread_PerKey ==
    /\ mpc = "start"
    /\ started < total
    /\ started' = started + 1
    /\ pc' = [pc EXCEPT ![started + 1] = "get"]
    /\ UNCHANGED <<http, queries, config_file,
                   window, call, input, out, fn, keys, clock, mpc, q, unfinished, results, all_statuses, lock,
                   done_count, key, issue, rec, err, arg, progress, ret>>

\* for t in threads: t.start()
StartThread ==
    /\ mpc = "start"
    /\ started < PoolSize
    /\ started' = started + 1
    /\ pc' = [pc EXCEPT ![started + 1] = "get"]
    /\ UNCHANGED <<http, queries, config_file,
                   window, call, input, out, fn, keys, clock, mpc, q, unfinished, results, all_statuses, lock,
                   done_count, key, issue, rec, err, arg, progress, ret>>

\* q.join() returns once every put() has had its task_done()
Join ==
    /\ mpc = "start"
    /\ started = PoolSize
    /\ unfinished = 0
    /\ mpc' = "joined"
    /\ UNCHANGED <<http, queries, config_file,
                   window, call, input, out, fn, keys, clock, started, q, unfinished, results, all_statuses,
                   lock, done_count, pc, key, issue, rec, err, arg, progress, ret>>

\* export_csv.py:174, timeline_report.py:172, sprint_analysis.py:157
AfterJoin ==
    /\ mpc = "joined"
    /\ mpc' = "finish"
    /\ CASE fn = "export_csv" ->
              /\ progress' = Append(progress, Call(Stage2Name, 0, total))
              /\ UNCHANGED results
         [] fn = "build_timeline_data" ->
              /\ progress' = Append(progress, Call(Stage2Name, 0, 1))
              /\ UNCHANGED results
         [] OTHER ->
              /\ results' = SortByDate(results)
              /\ UNCHANGED progress
    /\ UNCHANGED <<http, queries, config_file,
                   window, call, input, out, fn, keys, clock, started, q, unfinished, all_statuses, lock,
                   done_count, pc, key, issue, rec, err, arg, ret>>

\* sorted(list(all_statuses)) as the set it lists; the order of the header
\* columns is that of the strings
export_headers ==
    [fixed |-> << "key" >> \o sel_ids \o [i \in 1..Len(trules) |-> trules[i].name]
               \o << "comment_count", "comment_length", "commenter_count" >>,
     tis |-> all_statuses]

\* Python's dict.get(name, default)
dict_get(d, name, default) == IF name \in DOMAIN d THEN d[name] ELSE default

\* a variant that iterates over results as the workers left them
SortByKey_Unsorted(s) == s

\* export_csv.py:189: sorted(results, key=lambda r: r.get("key") or ""), a
\* stable sort; key k of the model is the k-th key string in ascending order
RECURSIVE InsertByKey(_, _)
InsertByKey(x, s) ==
    IF s = <<>> THEN <<x>>
    ELSE IF x.key < Head(s).key THEN <<x>> \o s
    ELSE <<Head(s)>> \o InsertByKey(x, Tail(s))

RECURSIVE SortByKey(_)
SortByKey(s) ==
    IF s = <<>> THEN <<>>
    ELSE Once(LAMBDA sorted : InsertByKey(s[Len(s)], sorted),
              SortByKey(SubSeq(s, 1, Len(s) - 1)))

\* export_csv.py:190-201: the row of one record, its time-in-status cells
\* those of the header columns; round(x, 2) leaves the whole hours of the
\* model as they are
row_of(r, statuses) ==
    [key |-> r.key,
     fields |-> [name \in {sel_ids[i] : i \in 1..Len(sel_ids)} |->
                    dict_get(r.fields, name, "")],
     tr |-> [name \in {trules[i].name : i \in 1..Len(trules)} |->
                dict_get(r.tr, name, 0)],
     cm |-> [name \in {"comment_count", "comment_length", "commenter_count"} |->
                dict_get(r.cm, name, 0)],
     tis |-> [st \in statuses |-> dict_get(r.tis, st, 0)]]

\* export_csv.py:188-203: the rows the returned generator yields
row_iter(res, statuses) ==
    Once(LAMBDA sorted : [idx \in 1..Len(sorted) |-> row_of(sorted[idx], statuses)],
         SortByKey(res))

\* export_csv.py:176-205, timeline_report.py:175-280, sprint_analysis.py:159-177
Finish ==
    /\ mpc = "finish"
    /\ mpc' = "returned"
    /\ CASE fn = "export_csv" ->
              /\ ret' = [headers |-> export_headers,
                         rows |-> row_iter(results, all_statuses)]
              /\ UNCHANGED progress
         [] fn = "build_timeline_data" ->
              /\ ret' = timeline_return(results)
              /\ progress' = (IF timeline_return(results).issues = <<>> THEN progress
                              ELSE Append(progress,
                                          Call("Timeline built successfully", 1, 1)))
         [] OTHER ->
              /\ ret' = [headers |-> << "issue_key", "from_status", "to_status",
                                        "transition_date", "sprint_day",
                                        "days_from_sprint_start", "days_to_sprint_end",
                                        "sprint_progress_percent" >>]
              /\ UNCHANGED progress
    /\ UNCHANGED <<http, queries, config_file,
                   window, call, input, out, fn, keys, clock, started, q, unfinished, results, all_statuses,
                   lock, done_count, pc, key, issue, rec, err, arg>>

(***************************************************************************)
(* Worker w.                                                               *)
(***************************************************************************)
\* key = q.get_nowait(); an empty queue ends the thread
GetNowait(w) ==
    /\ pc[w] = "get"
    /\ IF q = <<>>
       THEN /\ pc' = [pc EXCEPT ![w] = "exited"]
            /\ UNCHANGED <<q, key>>
       ELSE /\ key' = [key EXCEPT ![w] = Head(q)]
            /\ q' = Tail(q)
            /\ pc' = [pc EXCEPT ![w] = "fetch"]
    /\ UNCHANGED <<http, queries, config_file,
                   window, call, input, out, fn, keys, clock, mpc, started, unfinished, results, all_statuses,
                   lock, done_count, issue, rec, err, arg, progress, ret>>

\* a variant in which the exception of get_issue is not caught: the thread dies
GetIssue_Uncaught(w) ==
    /\ pc[w] = "fetch"
    /\ \E kind \in ResponseKinds :
          IF kind = "http_error"
          THEN /\ pc' = [pc EXCEPT ![w] = "exited"]
               /\ UNCHANGED issue
          ELSE /\ issue' = [issue EXCEPT ![w] = kind]
               /\ pc' = [pc EXCEPT ![w] = "compute"]
    /\ UNCHANGED <<http, queries, config_file,
                   window, call, input, out, fn, keys, clock, mpc, started, q, unfinished, results,
                   all_statuses, lock, done_count, key, rec, err, arg, progress, ret>>

\* issue = jira_client.get_issue(key, expand_changelog=True): returns or raises
GetIssue(w) ==
    /\ pc[w] = "fetch"
    /\ \E kind \in ResponseKinds :
          IF kind = "http_error"
          THEN /\ err' = [err EXCEPT ![w] = "HTTPError"]
               /\ pc' = [pc EXCEPT ![w] = "except"]
               /\ UNCHANGED issue
          ELSE /\ issue' = [issue EXCEPT ![w] = kind]
               /\ pc' = [pc EXCEPT ![w] = "compute"]
               /\ UNCHANGED err
    /\ UNCHANGED <<http, queries, config_file,
                   window, call, input, out, fn, keys, clock, mpc, started, q, unfinished, results,
                   all_statuses, lock, done_count, key, rec, arg, progress, ret>>

\* the try body up to `with lock`; compute_time_in_status reads the clock
Pipeline(w) ==
    /\ pc[w] = "compute"
    /\ IF PipelineRaises(fn, IssueOf(key[w], issue[w]))
       THEN /\ err' = [err EXCEPT ![w] = "ParserError"]
            /\ pc' = [pc EXCEPT ![w] = "except"]
            /\ UNCHANGED rec
       ELSE /\ rec' = [rec EXCEPT ![w] =
                         PipelineResult(fn, key[w], IssueOf(key[w], issue[w]), clock)]
            /\ pc' = [pc EXCEPT ![w] = "with_lock"]
            /\ UNCHANGED err
    /\ UNCHANGED <<http, queries, config_file,
                   window, call, input, out, fn, keys, clock, mpc, started, q, unfinished, results,
                   all_statuses, lock, done_count, key, issue, arg, progress, ret>>

ErrorRecord(k, text) ==
    CASE fn = "export_csv" -> export_error_record(k, text)
      [] fn = "build_timeline_data" -> timeline_error_record(k, text)
      [] OTHER -> sprint_error_row(k, text)

\* a variant that enters the section without waiting for the lock
Acquire_NoWait(w) ==
    /\ pc[w] \in {"with_lock", "except"}
    /\ lock' = w
    /\ pc' = [pc EXCEPT ![w] = IF pc[w] = "with_lock" THEN "append" ELSE "append_error"]
    /\ UNCHANGED <<http, queries, config_file,
                   window, call, input, out, fn, keys, clock, mpc, started, q, unfinished, results,
                   all_statuses, done_count, key, issue, rec, err, arg, progress, ret>>

\* `with lock:` of the try body or of the except handler is entered
Acquire(w) ==
    /\ pc[w] \in {"with_lock", "except"}
    /\ lock = 0
    /\ lock' = w
    /\ pc' = [pc EXCEPT ![w] = IF pc[w] = "with_lock" THEN "append" ELSE "append_error"]
    /\ UNCHANGED <<http, queries, config_file,
                   window, call, input, out, fn, keys, clock, mpc, started, q, unfinished, results,
                   all_statuses, done_count, key, issue, rec, err, arg, progress, ret>>

\* a variant whose except handler records nothing
AppendResult_DropsError(w) ==
    /\ pc[w] \in {"append", "append_error"}
    /\ IF pc[w] = "append"
       THEN /\ results' = results \o rec[w]
            /\ all_statuses' =
                  (IF fn = "export_csv" THEN all_statuses \cup DOMAIN rec[w][1].tis
                   ELSE all_statuses)
       ELSE UNCHANGED <<results, all_statuses>>
    /\ pc' = [pc EXCEPT ![w] = "incr"]
    /\ UNCHANGED <<http, queries, config_file,
                   window, call, input, out, fn, keys, clock, mpc, started, q, unfinished, lock, done_count,
                   key, issue, rec, err, arg, progress, ret>>

\* results.append(...) / results.extend(...), and all_statuses.update(...)
AppendResult(w) ==
    /\ pc[w] \in {"append", "append_error"}
    /\ IF pc[w] = "append"
       THEN /\ results' = results \o rec[w]
            /\ all_statuses' =
                  (IF fn = "export_csv" THEN all_statuses \cup DOMAIN rec[w][1].tis
                   ELSE all_statuses)
       ELSE /\ results' = Append(results, ErrorRecord(key[w], err[w]))
            /\ UNCHANGED all_statuses
    /\ pc' = [pc EXCEPT ![w] = "incr"]
    /\ UNCHANGED <<http, queries, config_file,
                   window, call, input, out, fn, keys, clock, mpc, started, q, unfinished, lock, done_count,
                   key, issue, rec, err, arg, progress, ret>>

\* a variant whose except handler appends the error record without counting it
IncrDone_SuccessOnly(w) ==
    /\ pc[w] = "incr"
    /\ done_count' = (IF err[w] = "" THEN done_count + 1 ELSE done_count)
    /\ lock' = 0
    /\ pc' = [pc EXCEPT ![w] = "task_done"]
    /\ UNCHANGED <<http, queries, config_file,
                   window, call, input, out, fn, keys, clock, mpc, started, q, unfinished, results,
                   all_statuses, key, issue, rec, err, arg, progress, ret>>

\* done_count += 1, and the end of the with block releases the lock
IncrDone(w) ==
    /\ pc[w] = "incr"
    /\ done_count' = done_count + 1
    /\ lock' = 0
    /\ pc' = [pc EXCEPT ![w] = "task_done"]
    /\ UNCHANGED <<http, queries, config_file,
                   window, call, input, out, fn, keys, clock, mpc, started, q, unfinished, results,
                   all_statuses, key, issue, rec, err, arg, progress, ret>>

\* a variant that calls task_done at the end of the try body, not in finally
TaskDone_NotInFinally(w) ==
    /\ pc[w] = "task_done"
    /\ unfinished' = (IF err[w] = "" THEN unfinished - 1 ELSE unfinished)
    /\ pc' = [pc EXCEPT ![w] = "load_done"]
    /\ UNCHANGED <<http, queries, config_file,
                   window, call, input, out, fn, keys, clock, mpc, started, q, results, all_statuses, lock,
                   done_count, key, issue, rec, err, arg, progress, ret>>

\* finally: q.task_done()
TaskDone(w) ==
    /\ pc[w] = "task_done"
    /\ unfinished' = unfinished - 1
    /\ pc' = [pc EXCEPT ![w] = "load_done"]
    /\ UNCHANGED <<http, queries, config_file,
                   window, call, input, out, fn, keys, clock, mpc, started, q, results, all_statuses, lock,
                   done_count, key, issue, rec, err, arg, progress, ret>>

\* the argument done_count of the progress call is read, without the lock
LoadDone(w) ==
    /\ pc[w] = "load_done"
    /\ arg' = [arg EXCEPT ![w] = done_count]
    /\ pc' = [pc EXCEPT ![w] = "call_progress"]
    /\ UNCHANGED <<http, queries, config_file,
                   window, call, input, out, fn, keys, clock, mpc, started, q, unfinished, results,
                   all_statuses, lock, done_count, key, issue, rec, err, progress, ret>>

\* progress_cb(stage, done_count, total) runs; the worker loops
CallProgress(w) ==
    /\ pc[w] = "call_progress"
    /\ progress' = Append(progress, Call(Stage1Name, arg[w], total))
    /\ pc' = [pc EXCEPT ![w] = "get"]
    /\ key' = [key EXCEPT ![w] = 0]
    /\ issue' = [issue EXCEPT ![w] = ""]
    /\ rec' = [rec EXCEPT ![w] = <<>>]
    /\ err' = [err EXCEPT ![w] = ""]
    /\ arg' = [arg EXCEPT ![w] = 0]
    /\ UNCHANGED <<http, queries, config_file,
                   window, call, input, out, fn, keys, clock, mpc, started, q, unfinished, results,
                   all_statuses, lock, done_count, ret>>

\* progress_cb(stage, done_count, total) raises: the call is the last
\* statement of the finally block and nothing around it catches, so the
\* exception leaves worker() and the thread ends
CallProgressRaises(w) ==
    /\ pc[w] = "call_progress"
    /\ progress' = Append(progress, Call(Stage1Name, arg[w], total))
    /\ pc' = [pc EXCEPT ![w] = "raised"]
    /\ UNCHANGED <<http, queries, config_file,
                   window, call, input, out, fn, keys, clock, mpc, started, q, unfinished, results,
                   all_statuses, lock, done_count, key, issue, rec, err, arg, ret>>

\* int(text) for the decimal strings the model sends as Retry-After
int_of(text) ==
    CASE text = "0" -> 0
      [] text = "2" -> 2
      [] text = "5" -> 5
      [] text = "30" -> 30

\* what the server can answer to GET /rest/api/3/issue/<key>: the issue
\* (well-formed or with a malformed timestamp), a server error, or 429 with
\* no Retry-After header or one that holds a number of seconds
Responses ==
    { [status_code |-> 200, headers |-> [h \in {} |-> ""], json |-> "plain"],
      [status_code |-> 200, headers |-> [h \in {} |-> ""], json |-> "malformed"],
      [status_code |-> 500, headers |-> [h \in {} |-> ""], json |-> ""],
      [status_code |-> 429, headers |-> [h \in {} |-> ""], json |-> ""] }
    \cup { [status_code |-> 429, headers |-> [h \in {"Retry-After"} |-> text], json |-> ""] :
             text \in {"0", "5", "30"} }

\* a variant that gives up at the first 429
get_issue_NoRetry(r1, r2) ==
    [responses |-> << r1 >>,
     slept |-> <<>>,
     raises |-> r1.status_code >= 400,
     json |-> r1.json]

\* jira_client.py:30-36 when the first request is answered r1 and a second
\* one, if it is sent, r2: the responses received, the sleeps, and whether
\* raise_for_status raises (it does for 4xx and 5xx) or r.json() is returned
get_issue(r1, r2) ==
    IF r1.status_code = 429
    THEN LET retry_after == int_of(dict_get(r1.headers, "Retry-After", "2"))
         IN  [responses |-> << r1, r2 >>,
              slept |-> << Min(10, Max(1, retry_after)) >>,
              raises |-> r2.status_code >= 400,
              json |-> r2.json]
    ELSE [responses |-> << r1 >>,
          slept |-> <<>>,
          raises |-> r1.status_code >= 400,
          json |-> r1.json]

\* issue = jira_client.get_issue(key, expand_changelog=True), followed down
\* to its HTTP requests
GetIssueHttp(w) ==
    /\ pc[w] = "fetch"
    /\ \E r1 \in Responses : \E r2 \in Responses :
          LET c == get_issue(r1, r2)
          IN  /\ http' = [http EXCEPT ![key[w]] = Append(@, c)]
              /\ IF c.raises
                 THEN /\ err' = [err EXCEPT ![w] = "HTTPError"]
                      /\ pc' = [pc EXCEPT ![w] = "except"]
                      /\ UNCHANGED issue
                 ELSE /\ issue' = [issue EXCEPT ![w] = c.json]
                      /\ pc' = [pc EXCEPT ![w] = "compute"]
                      /\ UNCHANGED err
    /\ UNCHANGED <<queries, config_file,
                   window, call, input, out, fn, keys, clock, mpc, started, q, unfinished, results,
                   all_statuses, lock, done_count, key, rec, arg, progress, ret>>

Worker(w) ==
    \/ GetNowait(w)
    \/ GetIssue(w)
    \/ Pipeline(w)
    \/ Acquire(w)
    \/ AppendResult(w)
    \/ IncrDone(w)
    \/ TaskDone(w)
    \/ LoadDone(w)
    \/ CallProgress(w)

Main == Setup \/ StartThread \/ Join \/ AfterJoin \/ Finish

\* time passes while the function runs
Tick ==
    /\ mpc # "returned"
    /\ clock < ClockLo + ClockSpan
    /\ clock' = clock + 1
    /\ UNCHANGED <<http, queries, config_file,
                   window, call, input, out, fn, keys, mpc, started, q, unfinished, results, all_statuses,
                   lock, done_count, pc, key, issue, rec, err, arg, progress, ret>>

Next == Main \/ \E w \in Workers : Worker(w)

\* a run of export_csv during which the clock does not advance
Spec == Init /\ [][Next]_vars

\* a run of export_csv across a change of the clock
NextClock == Next \/ Tick
SpecClock == Init /\ [][NextClock]_vars

\* a run of export_csv with every thread scheduled fairly
SpecFair == Init /\ [][Next]_vars /\ WF_vars(Main) /\ \A w \in Pool : WF_vars(Worker(w))

\* a run of any of the three functions
SpecFanout == InitOf(Functions) /\ [][Next]_vars

\* a run of build_timeline_data
SpecTimeline == InitOf({"build_timeline_data"}) /\ [][Next]_vars

\* a run of build_timeline_data or analyze_sprint_patterns with whatever date
\* arguments the caller passes
SpecWindow ==
    /\ FanoutInit({"build_timeline_data", "analyze_sprint_patterns"}, Min(2, MaxKeys), TRUE)
    /\ [][Next]_vars

\* a run of export_csv whose progress callback can raise
NextCallback == Next \/ \E w \in Workers : CallProgressRaises(w)
SpecCallback == Init /\ [][NextCallback]_vars

\* a run of export_csv with get_issue followed down to its HTTP requests
WorkerRetry(w) ==
    \/ GetNowait(w)
    \/ GetIssueHttp(w)
    \/ Pipeline(w)
    \/ Acquire(w)
    \/ AppendResult(w)
    \/ IncrDone(w)
    \/ TaskDone(w)
    \/ LoadDone(w)
    \/ CallProgress(w)

NextRetry == Main \/ \E w \in Workers : WorkerRetry(w)
SpecRetry == FanoutInit({"export_csv"}, Min(2, MaxKeys), FALSE) /\ [][NextRetry]_vars

(***************************************************************************)
(* The per-issue functions on their own: extract_status_changes,           *)
(* compute_time_in_status and the timeline of one issue, applied to an     *)
(* issue whose changelog has up to MaxHist history entries, in any order,  *)
(* with timestamps on day 0, 2 or 4 or unparsable.  datetime.now() is the  *)
(* start of day 4.                                                         *)
(***************************************************************************)
MaxHist == 2

Days == {0, 2, 4}
Instants == {d * HoursPerDay : d \in Days}
Now == 4 * HoursPerDay

ItemLists ==
    { << OtherItem("assignee") >>,
      << StatusItem("", "Open") >>,
      << StatusItem("Open", "InProgress") >>,
      << StatusItem("Open", "InProgress"), StatusItem("InProgress", "Done") >>,
      << OtherItem("assignee"), StatusItem("InProgress", "Done") >> }

Histories ==
    {History(raw, items) : raw \in {Iso(t) : t \in Instants} \cup {Garbage},
                           items \in ItemLists}

Changelogs == UNION {[1..n -> Histories] : n \in 0..MaxHist}

Issues ==
    {[key |-> 1,
      fields |-> [created |-> created, status |-> [name |-> "Done"], comment |-> <<>>],
      changelog |-> changelog] :
        created \in {Iso(0), Iso(2 * HoursPerDay), NoneTime},
        changelog \in Changelogs}

InitPure ==
    /\ fn = "build_timeline_data"
    /\ keys = <<>>
    /\ clock = Now
    /\ mpc = "returned"
    /\ started = 0
    /\ q = <<>>
    /\ unfinished = 0
    /\ results = <<>>
    /\ all_statuses = {}
    /\ lock = 0
    /\ done_count = 0
    /\ pc = [w \in Workers |-> "unstarted"]
    /\ key = [w \in Workers |-> 0]
    /\ issue = [w \in Workers |-> ""]
    /\ rec = [w \in Workers |-> <<>>]
    /\ err = [w \in Workers |-> ""]
    /\ arg = [w \in Workers |-> 0]
    /\ progress = <<>>
    /\ ret = <<>>
    /\ http = [k \in DOMAIN keys |-> <<>>]
    /\ queries = <<>>
    /\ config_file = [exists |-> FALSE]
    /\ window \in Windows("build_timeline_data")
    /\ call = "none"
    /\ input \in Issues
    /\ out = <<>>

\* changes = extract_status_changes(issue)
ExtractCall ==
    /\ call = "none"
    /\ call' = "extract_status_changes"
    /\ out' = (IF extract_raises(input) THEN [raises |-> "ParserError"]
               ELSE [value |-> extract_status_changes(input)])
    /\ UNCHANGED <<http, queries, config_file,
                   window, input, fn, keys, clock, mpc, started, q, unfinished, results,
                   all_statuses, lock, done_count, pc, key, issue, rec, err, arg,
                   progress, ret>>

\* tis = compute_time_in_status(issue, ...), with its local `segments`
TimeInStatusCall ==
    /\ call = "none"
    /\ call' = "compute_time_in_status"
    /\ out' = (IF time_in_status_raises(input) THEN [raises |-> "ParserError"]
               ELSE [segments |-> build_segments(input, clock),
                     value |-> compute_time_in_status(input, clock)])
    /\ UNCHANGED <<http, queries, config_file,
                   window, input, fn, keys, clock, mpc, started, q, unfinished, results,
                   all_statuses, lock, done_count, pc, key, issue, rec, err, arg,
                   progress, ret>>

\* timeline_report.py:141-160 for the one issue, then lines 175-280 and the
\* rows of generate_html_report
TimelineCall ==
    /\ call = "none"
    /\ call' = "build_timeline_data"
    /\ LET issues_data ==
               IF extract_raises(input)
               THEN << timeline_error_record(input.key, "ParserError") >>
               ELSE << timeline_record(input.key, input) >>
       IN  out' = [data |-> timeline_return(issues_data),
                   report |-> html_rows(timeline_return(issues_data))]
    /\ UNCHANGED <<http, queries, config_file,
                   window, input, fn, keys, clock, mpc, started, q, unfinished, results,
                   all_statuses, lock, done_count, pc, key, issue, rec, err, arg,
                   progress, ret>>

NextPure == ExtractCall \/ TimeInStatusCall \/ TimelineCall

SpecPure == InitPure /\ [][NextPure]_vars

(***************************************************************************)
(* main.business_hours_overlap.  Instants are whole hours counted from a   *)
(* Monday 00:00 in the configuration's time zone, UTC, for which           *)
(* astimezone and localize change nothing.                                 *)
(***************************************************************************)
\* "HH:MM" strings and parse_time_hhmm
HHMM(h) == [kind |-> "hhmm", hour |-> h]
parse_time_hhmm(s) == s.hour

\* "%Y-%m-%d" strings of the holiday list, and strings strptime rejects
DateStr(d) == [kind |-> "date", day |-> d]
BadDateStr == [kind |-> "garbage"]

\* date.weekday(): Monday is 0
weekday(d) == d % 7

\* a variant that ignores the holiday list
holidays_of_Ignored(bh) == {}

\* main.py:113-118: the entries that do not parse are passed over
holidays_of(bh) ==
    {bh.holidays[i].day : i \in {k \in 1..Len(bh.holidays) : bh.holidays[k].kind = "date"}}

\* a variant that never skips a day
day_excluded_Never(bh, cur) == FALSE

\* main.py:123, negated: the day is skipped
day_excluded(bh, cur) ==
    (bh.exclude_weekends /\ weekday(cur) >= 5) \/ cur \in holidays_of(bh)

\* a variant that adds the difference whatever its sign
day_hours_Signed(start_dt, end_dt, bh, cur) ==
    IF day_excluded(bh, cur) THEN 0
    ELSE Min(end_dt, cur * HoursPerDay + parse_time_hhmm(bh.end))
         - Max(start_dt, cur * HoursPerDay + parse_time_hhmm(bh.start))

\* main.py:123-129: what one day adds to total
day_hours(start_dt, end_dt, bh, cur) ==
    IF day_excluded(bh, cur) THEN 0
    ELSE LET day_start == cur * HoursPerDay + parse_time_hhmm(bh.start)
             day_end == cur * HoursPerDay + parse_time_hhmm(bh.end)
             seg_start == Max(start_dt, day_start)
             seg_end == Min(end_dt, day_end)
         IN  IF seg_end > seg_start
             THEN total_seconds(seg_end - seg_start) \div SecondsPerHour
             ELSE 0

\* a variant whose loop stops before the date of end_dt
RECURSIVE overlap_loop_BeforeLastDay(_, _, _, _)
overlap_loop_BeforeLastDay(start_dt, end_dt, bh, cur) ==
    IF ~(cur < DateOf(end_dt)) THEN 0
    ELSE day_hours(start_dt, end_dt, bh, cur)
         + overlap_loop_BeforeLastDay(start_dt, end_dt, bh, cur + 1)

\* main.py:120-131: the while loop from cur on
RECURSIVE overlap_loop(_, _, _, _)
overlap_loop(start_dt, end_dt, bh, cur) ==
    IF ~(cur <= DateOf(end_dt)) THEN 0
    ELSE day_hours(start_dt, end_dt, bh, cur) + overlap_loop(start_dt, end_dt, bh, cur + 1)

business_hours_overlap(start_dt, end_dt, bh) ==
    IF end_dt <= start_dt THEN 0
    ELSE overlap_loop(start_dt, end_dt, bh, DateOf(start_dt))

\* the days the instants are taken from: a Friday and the days after it
MaxDays == 4
Friday == 4
BhDays == Friday..(Friday + MaxDays - 1)
BhInstants == {d * HoursPerDay + h : d \in BhDays, h \in {0, 9, 10, 16, 17}}

\* main.py:579-585: the configurations the form can save: the default
\* hours, hours that end where they start and hours that end before they
\* start; weekends excluded or not; no holiday, or the Friday and an entry
\* that is no date
BhConfigs ==
    {[start |-> HHMM(t[1]), end |-> HHMM(t[2]), timezone |-> "UTC",
      exclude_weekends |-> w, holidays |-> h] :
        t \in {<<9, 17>>, <<9, 9>>, <<17, 9>>},
        w \in BOOLEAN,
        h \in {<<>>, <<BadDateStr, DateStr(Friday)>>}}

\* the interval [s, e], a point t, and the configuration
OverlapInputs == [s : BhInstants, t : BhInstants, e : BhInstants, bh : BhConfigs]

InitHours ==
    /\ fn = "export_csv"
    /\ keys = <<>>
    /\ clock = Now
    /\ mpc = "returned"
    /\ started = 0
    /\ q = <<>>
    /\ unfinished = 0
    /\ results = <<>>
    /\ all_statuses = {}
    /\ lock = 0
    /\ done_count = 0
    /\ pc = [w \in Workers |-> "unstarted"]
    /\ key = [w \in Workers |-> 0]
    /\ issue = [w \in Workers |-> ""]
    /\ rec = [w \in Workers |-> <<>>]
    /\ err = [w \in Workers |-> ""]
    /\ arg = [w \in Workers |-> 0]
    /\ progress = <<>>
    /\ ret = <<>>
    /\ http = [k \in DOMAIN keys |-> <<>>]
    /\ queries = <<>>
    /\ config_file = [exists |-> FALSE]
    /\ window = DefaultWindow("export_csv")
    /\ call = "none"
    /\ input \in OverlapInputs
    /\ out = <<>>

\* business_hours_overlap over the interval and over its two parts at t
OverlapCall ==
    /\ call = "none"
    /\ "bh" \in DOMAIN input
    /\ call' = "business_hours_overlap"
    /\ out' = [whole |-> business_hours_overlap(input.s, input.e, input.bh),
               left |-> business_hours_overlap(input.s, input.t, input.bh),
               right |-> business_hours_overlap(input.t, input.e, input.bh)]
    /\ UNCHANGED <<http, queries, config_file,
                   window, input, fn, keys, clock, mpc, started, q, unfinished, results,
                   all_statuses, lock, done_count, pc, key, issue, rec, err, arg,
                   progress, ret>>

NextHours == OverlapCall

SpecHours == InitHours /\ [][NextHours]_vars

(***************************************************************************)
(* export_csv.count_sequence_occurrences, one loop iteration at a time.    *)
(* The locals i, pair_index and count are the fields of out while the loop *)
(* runs.                                                                   *)
(***************************************************************************)
\* a variant that restarts at the first pair whenever the event matches it
loop_body_RestartFirst(changes, np, st) ==
    LET frm == changes[st.i + 1][1]
        to == changes[st.i + 1][2]
    IN  IF frm = np[1][1] /\ to = np[1][2]
        THEN IF 1 = Len(np)
             THEN [i |-> st.i + 1, pair_index |-> 0, count |-> st.count + 1]
             ELSE [i |-> st.i + 1, pair_index |-> 1, count |-> st.count]
        ELSE IF frm = np[st.pair_index + 1][1] /\ to = np[st.pair_index + 1][2]
             THEN IF st.pair_index + 1 = Len(np)
                  THEN [i |-> st.i + 1, pair_index |-> 0, count |-> st.count + 1]
                  ELSE [i |-> st.i + 1, pair_index |-> st.pair_index + 1, count |-> st.count]
             ELSE [i |-> st.i + 1, pair_index |-> 0, count |-> st.count]

\* a variant that records that the pattern occurred, not how often
loop_body_CountOnce(changes, np, st) ==
    LET frm == changes[st.i + 1][1]
        to == changes[st.i + 1][2]
        need == np[st.pair_index + 1]
    IN  IF frm = need[1] /\ to = need[2]
        THEN IF st.pair_index + 1 = Len(np)
             THEN [i |-> st.i + 1, pair_index |-> 0, count |-> 1]
             ELSE [i |-> st.i + 1, pair_index |-> st.pair_index + 1, count |-> st.count]
        ELSE IF frm = np[1][1] /\ to = np[1][2]
             THEN [i |-> st.i + 1, pair_index |-> 1, count |-> st.count]
             ELSE [i |-> st.i + 1, pair_index |-> 0, count |-> st.count]

\* a variant in which an event that is neither the needed nor the first pair
\* leaves the match in progress where it was
loop_body_NoReset(changes, np, st) ==
    LET frm == changes[st.i + 1][1]
        to == changes[st.i + 1][2]
        need == np[st.pair_index + 1]
    IN  IF frm = need[1] /\ to = need[2]
        THEN IF st.pair_index + 1 = Len(np)
             THEN [i |-> st.i + 1, pair_index |-> 0, count |-> st.count + 1]
             ELSE [i |-> st.i + 1, pair_index |-> st.pair_index + 1, count |-> st.count]
        ELSE IF frm = np[1][1] /\ to = np[1][2]
             THEN [i |-> st.i + 1, pair_index |-> 1, count |-> st.count]
             ELSE [i |-> st.i + 1, pair_index |-> st.pair_index, count |-> st.count]

\* a variant that counts a completed occurrence without resetting pair_index
loop_body_NoWrap(changes, np, st) ==
    LET frm == changes[st.i + 1][1]
        to == changes[st.i + 1][2]
        need == np[st.pair_index + 1]
    IN  IF frm = need[1] /\ to = need[2]
        THEN IF st.pair_index + 1 = Len(np)
             THEN [i |-> st.i + 1, pair_index |-> st.pair_index + 1, count |-> st.count + 1]
             ELSE [i |-> st.i + 1, pair_index |-> st.pair_index + 1, count |-> st.count]
        ELSE IF frm = np[1][1] /\ to = np[1][2]
             THEN [i |-> st.i + 1, pair_index |-> 1, count |-> st.count]
             ELSE [i |-> st.i + 1, pair_index |-> 0, count |-> st.count]

\* export_csv.py:58-70: the body of the while loop
loop_body(changes, np, st) ==
    LET frm == changes[st.i + 1][1]
        to == changes[st.i + 1][2]
        need == np[st.pair_index + 1]
    IN  IF frm = need[1] /\ to = need[2]
        THEN IF st.pair_index + 1 = Len(np)
             THEN [i |-> st.i + 1, pair_index |-> 0, count |-> st.count + 1]
             ELSE [i |-> st.i + 1, pair_index |-> st.pair_index + 1, count |-> st.count]
        ELSE IF frm = np[1][1] /\ to = np[1][2]
             THEN [i |-> st.i + 1, pair_index |-> 1, count |-> st.count]
             ELSE [i |-> st.i + 1, pair_index |-> 0, count |-> st.count]

\* the transition rules a configuration can hold, and sequences of fewer
\* than two states
Patterns ==
    { <<>>, << "Open" >>, << "Open", "InProgress" >>,
      << "Open", "InProgress", "Done" >>,
      << "Open", "InProgress", "Open", "InProgress", "Done" >> }

\* the event lists: up to MaxEvents status changes, the i-th at instant i
MaxEvents == 6
EventPairs == { << "Open", "InProgress" >>, << "InProgress", "Open" >>,
                << "InProgress", "Done" >> }
EventLists ==
    UNION { { [i \in 1..n |-> << p[i][1], p[i][2], i >>] : p \in [1..n -> EventPairs] } :
            n \in 0..MaxEvents }

InitCount ==
    /\ fn = "export_csv"
    /\ keys = <<>>
    /\ clock = Now
    /\ mpc = "returned"
    /\ started = 0
    /\ q = <<>>
    /\ unfinished = 0
    /\ results = <<>>
    /\ all_statuses = {}
    /\ lock = 0
    /\ done_count = 0
    /\ pc = [w \in Workers |-> "unstarted"]
    /\ key = [w \in Workers |-> 0]
    /\ issue = [w \in Workers |-> ""]
    /\ rec = [w \in Workers |-> <<>>]
    /\ err = [w \in Workers |-> ""]
    /\ arg = [w \in Workers |-> 0]
    /\ progress = <<>>
    /\ ret = <<>>
    /\ http = [k \in DOMAIN keys |-> <<>>]
    /\ queries = <<>>
    /\ config_file = [exists |-> FALSE]
    /\ window = DefaultWindow("export_csv")
    /\ call = "none"
    /\ input \in [changes : EventLists, sequence : Patterns]
    /\ out = <<>>

\* a variant whose guard is "if not sequence" alone: needed_pairs[0] of a
\* one-state sequence then raises IndexError on the first event
CountEnter_EmptyOnly ==
    /\ call = "none"
    /\ "sequence" \in DOMAIN input
    /\ IF input.sequence = <<>> \/ (Len(input.sequence) < 2 /\ input.changes = <<>>)
       THEN call' = "count_returned" /\ out' = [value |-> 0]
       ELSE IF Len(input.sequence) < 2
            THEN call' = "count_returned" /\ out' = [raises |-> "IndexError"]
            ELSE call' = "count_loop" /\ out' = [i |-> 0, pair_index |-> 0, count |-> 0]
    /\ UNCHANGED <<http, queries, config_file,
                   window, input, fn, keys, clock, mpc, started, q, unfinished, results,
                   all_statuses, lock, done_count, pc, key, issue, rec, err, arg,
                   progress, ret>>

\* export_csv.py:50-56: the early return, or the locals before the loop
CountEnter ==
    /\ call = "none"
    /\ "sequence" \in DOMAIN input
    /\ IF input.sequence = <<>> \/ Len(input.sequence) < 2
       THEN call' = "count_returned" /\ out' = [value |-> 0]
       ELSE call' = "count_loop" /\ out' = [i |-> 0, pair_index |-> 0, count |-> 0]
    /\ UNCHANGED <<http, queries, config_file,
                   window, input, fn, keys, clock, mpc, started, q, unfinished, results,
                   all_statuses, lock, done_count, pc, key, issue, rec, err, arg,
                   progress, ret>>

\* export_csv.py:57-70: one iteration of "while i < n"
CountStep ==
    /\ call = "count_loop"
    /\ out.i < Len(input.changes)
    /\ out' = loop_body(input.changes, needed_pairs(input.sequence), out)
    /\ UNCHANGED <<http, queries, config_file,
                   window, call, input, fn, keys, clock, mpc, started, q, unfinished,
                   results, all_statuses, lock, done_count, pc, key, issue, rec, err,
                   arg, progress, ret>>

\* export_csv.py:57 and 71: the loop ends, return count
CountReturn ==
    /\ call = "count_loop"
    /\ ~(out.i < Len(input.changes))
    /\ call' = "count_returned"
    /\ out' = [value |-> out.count]
    /\ UNCHANGED <<http, queries, config_file,
                   window, input, fn, keys, clock, mpc, started, q, unfinished, results,
                   all_statuses, lock, done_count, pc, key, issue, rec, err, arg,
                   progress, ret>>

NextCount == CountEnter \/ CountStep \/ CountReturn

SpecCount == InitCount /\ [][NextCount]_vars

(***************************************************************************)
(* jql_manager.JQLManager: the in-memory list `queries` and the config     *)
(* file, from a manager constructed where no config file exists, under any *)
(* sequence of add_query, update_query and delete_query calls.  Writing    *)
(* the file can fail.                                                      *)
(***************************************************************************)
Names == {"a", "b"}
Jqls == {"j1", "j2"}
Descriptions == {"", "d"}

\* the longest list a run builds
MaxQueries == 3

\* what open(config_file, 'w') and json.dump can do: both succeed, open
\* raises and the file is as it was, or json.dump raises on the file that
\* open has truncated
SaveOutcomes == {"ok", "open_raises", "dump_raises"}

\* jql_manager.py:47-59: the return value and the file afterwards
save_queries(outcome, qs, file) ==
    CASE outcome = "ok" ->
            [value |-> TRUE, file |-> [exists |-> TRUE, valid |-> TRUE, content |-> qs]]
      [] outcome = "open_raises" ->
            [value |-> FALSE, file |-> file]
      [] OTHER ->
            [value |-> FALSE, file |-> [exists |-> TRUE, valid |-> FALSE, content |-> <<>>]]

\* a variant of the name check that finds nothing
name_exists_Never(qs, name) == FALSE

\* jql_manager.py:73: any(q['name'] == name for q in self.queries)
name_exists(qs, name) == \E i \in DOMAIN qs : qs[i].name = name

InitQueries ==
    /\ fn = "export_csv"
    /\ keys = <<>>
    /\ clock = Now
    /\ mpc = "returned"
    /\ started = 0
    /\ q = <<>>
    /\ unfinished = 0
    /\ results = <<>>
    /\ all_statuses = {}
    /\ lock = 0
    /\ done_count = 0
    /\ pc = [w \in Workers |-> "unstarted"]
    /\ key = [w \in Workers |-> 0]
    /\ issue = [w \in Workers |-> ""]
    /\ rec = [w \in Workers |-> <<>>]
    /\ err = [w \in Workers |-> ""]
    /\ arg = [w \in Workers |-> 0]
    /\ progress = <<>>
    /\ ret = <<>>
    /\ http = [k \in DOMAIN keys |-> <<>>]
    /\ window = DefaultWindow("export_csv")
    /\ call = "none"
    /\ input = PyNone
    /\ out = <<>>
    /\ queries = <<>>
    /\ config_file = [exists |-> FALSE]

\* jql_manager.py:61-82
add_query ==
    /\ Len(queries) < MaxQueries
    /\ \E name \in Names : \E jql \in Jqls : \E description \in Descriptions :
       \E outcome \in SaveOutcomes :
          /\ call' = "add_query"
          /\ input' = [name |-> name, jql |-> jql, description |-> description]
          /\ IF name_exists(queries, name)
             THEN /\ out' = [value |-> FALSE]
                  /\ UNCHANGED <<queries, config_file>>
             ELSE LET appended == Append(queries, [name |-> name, jql |-> jql,
                                                   description |-> description])
                      saved == save_queries(outcome, appended, config_file)
                  IN  /\ queries' = appended
                      /\ config_file' = saved.file
                      /\ out' = [value |-> saved.value]
    /\ UNCHANGED <<http, window, fn, keys, clock, mpc, started, q, unfinished, results,
                   all_statuses, lock, done_count, pc, key, issue, rec, err, arg,
                   progress, ret>>

\* jql_manager.py:84-100
update_query ==
    /\ \E name \in Names : \E jql \in Jqls : \E description \in Descriptions :
       \E outcome \in SaveOutcomes :
          /\ call' = "update_query"
          /\ input' = [name |-> name, jql |-> jql, description |-> description]
          /\ IF \E i \in DOMAIN queries : queries[i].name = name
             THEN LET i == CHOOSE j \in DOMAIN queries :
                              /\ queries[j].name = name
                              /\ \A l \in 1..(j - 1) : queries[l].name # name
                      updated == [queries EXCEPT ![i].jql = jql,
                                                 ![i].description = description]
                      saved == save_queries(outcome, updated, config_file)
                  IN  /\ queries' = updated
                      /\ config_file' = saved.file
                      /\ out' = [value |-> saved.value]
             ELSE /\ out' = [value |-> FALSE]
                  /\ UNCHANGED <<queries, config_file>>
    /\ UNCHANGED <<http, window, fn, keys, clock, mpc, started, q, unfinished, results,
                   all_statuses, lock, done_count, pc, key, issue, rec, err, arg,
                   progress, ret>>

\* jql_manager.py:102-116
delete_query ==
    /\ \E name \in Names : \E outcome \in SaveOutcomes :
          LET original_length == Len(queries)
              kept == SelectSeq(queries, LAMBDA x : x.name # name)
              saved == save_queries(outcome, kept, config_file)
          IN  /\ call' = "delete_query"
              /\ input' = [name |-> name]
              /\ queries' = kept
              /\ IF Len(kept) < original_length
                 THEN /\ config_file' = saved.file
                      /\ out' = [value |-> saved.value]
                 ELSE /\ out' = [value |-> FALSE]
                      /\ UNCHANGED config_file
    /\ UNCHANGED <<http, window, fn, keys, clock, mpc, started, q, unfinished, results,
                   all_statuses, lock, done_count, pc, key, issue, rec, err, arg,
                   progress, ret>>

NextQueries == add_query \/ update_query \/ delete_query

SpecQueries == InitQueries /\ [][NextQueries]_vars

(***************************************************************************)
(* Properties.                                                             *)
(***************************************************************************)
\* q.join() has returned in the main thread
JoinReturned ==
    \/ mpc \in {"joined", "finish"}
    \/ mpc = "returned" /\ ~(fn # "export_csv" /\ total = 0)

IsError(r) == "error" \in DOMAIN r

\* positions of the stage-1 invocations in the order of invocation
Stage1Calls == {i \in DOMAIN progress : progress[i].stage = Stage1Name}

\* C1: in export_csv, once q.join() has returned, results holds exactly one
\* record for every key of search_jql and no other record; no key is held by
\* two workers, and none is left in the queue.
C1_OneRecordPerKey ==
    /\ \A w1, w2 \in Workers : (w1 # w2 /\ key[w1] # 0) => key[w1] # key[w2]
    /\ JoinReturned =>
          /\ Len(results) = Len(keys)
          /\ \A k \in DOMAIN keys :
                Cardinality({i \in DOMAIN results : results[i].key = keys[k]}) = 1
          /\ q = <<>>

C1_Witness ==
    /\ JoinReturned
    /\ Len(keys) = MaxKeys
    /\ \E i, j \in DOMAIN results : IsError(results[i]) /\ ~IsError(results[j])

\* C2: the stage-1 progress invocations, in the order they happen, carry
\* done values that never decrease.
C2_DoneNeverDecreases ==
    \A i, j \in Stage1Calls : i < j => progress[i].done <= progress[j].done

\* C3: once the main thread is past q.join() every worker has finished its
\* stage-1 progress callback, and no stage-1 invocation follows a stage-2
\* invocation.
C3_JoinSemantics ==
    /\ mpc \in {"finish", "returned"} /\ JoinReturned =>
          \A w \in Pool : pc[w] \in {"get", "exited"}
    /\ \A i, j \in DOMAIN progress :
          (i < j /\ progress[i].stage = Stage2Name) => progress[j].stage # Stage1Name

\* C4: in export_csv a key whose fetch or pipeline raises gets a record with
\* the error text and empty fields, tr, cm and tis; the worker that caught
\* the error leaves its loop only on an empty queue, and every key has a
\* record when q.join() returns.
C4_FailureIsRecorded ==
    /\ \A i \in DOMAIN results :
          IsError(results[i]) =>
             /\ results[i].error # ""
             /\ results[i].fields = EmptyDict
             /\ results[i].tr = EmptyDict
             /\ results[i].cm = EmptyDict
             /\ results[i].tis = EmptyDict
    /\ \A w \in Pool :
          (err[w] # "" /\ pc[w] \in {"incr", "task_done", "load_done", "call_progress"}) =>
             \E i \in DOMAIN results :
                /\ results[i].key = key[w]
                /\ IsError(results[i])
                /\ results[i].error = err[w]
    /\ \A w \in Pool : pc[w] = "exited" => q = <<>>
    /\ JoinReturned => \A k \in DOMAIN keys : \E i \in DOMAIN results : results[i].key = keys[k]

C4_Witness ==
    /\ JoinReturned
    /\ Len(keys) = MaxKeys
    /\ IsError(results[1]) /\ results[1].error = "HTTPError"
    /\ \E i \in DOMAIN results : IsError(results[i]) /\ results[i].error = "ParserError"
    /\ \E i \in DOMAIN results : ~IsError(results[i])

\* C5: under fair scheduling export_csv completes for every list of keys and
\* every pattern of failures: q.join() returns, the function returns and
\* every worker thread leaves its loop.
C5_Completes == <>(mpc = "returned" /\ \A w \in Pool : pc[w] = "exited")

C5_Witness ==
    /\ mpc = "returned"
    /\ \A w \in Pool : pc[w] = "exited"
    /\ Len(keys) = MaxKeys
    /\ \E i \in DOMAIN results : IsError(results[i])

\* C6: every worker callback carries the total len(keys), and over a run the
\* worker callbacks report each done value once: no two stage-1 invocations
\* carry the same done.
C6_EachDoneReportedOnce ==
    /\ \A i \in Stage1Calls : progress[i].total = Len(keys)
    /\ \A i, j \in Stage1Calls : i # j => progress[i].done # progress[j].done

\* C7: the record of a key that did not fail is the one a run without the
\* failure yields for it: with exactly one failed key in the results, every
\* other record equals the record computed from that key's issue alone.
C7_OthersUnchanged ==
    Cardinality({i \in DOMAIN results : IsError(results[i])}) = 1 =>
       \A i \in DOMAIN results :
          ~IsError(results[i]) =>
             results[i] = export_record(IssueOf(results[i].key, "plain"), ClockLo)

\* C8: in the three worker loops no worker holds the lock inside get_issue or
\* the per-issue computation; the lock is held exactly from the append to the
\* done_count increment, by at most one worker.
C8_LockDiscipline ==
    /\ \A w \in Workers : pc[w] \in {"fetch", "compute"} => lock # w
    /\ \A w \in Workers : lock = w <=> pc[w] \in {"append", "append_error", "incr"}
    /\ Cardinality({w \in Workers : pc[w] \in {"append", "append_error", "incr"}}) <= 1

C8_Witness ==
    \E w1, w2 \in Workers :
       /\ lock = w1
       /\ pc[w2] \in {"with_lock", "except"}

\* C9: the pool is fixed-size: never more than the pool's number of get_issue
\* calls are in flight, never more threads than that are started, and after
\* the start loop exactly that many were started whatever the number of keys.
C9_FixedPool ==
    /\ Cardinality({w \in Workers : pc[w] = "fetch"}) <= PoolSize
    /\ started <= PoolSize
    /\ PoolSize <= CONCURRENT_WORKERS
    /\ JoinReturned => started = PoolSize

C9_Witness ==
    /\ Cardinality({w \in Workers : pc[w] = "fetch"}) = PoolSize
    /\ q # <<>>

\* C10: the 'issues' list build_timeline_data returns has one entry for every
\* key of search_jql, also for the keys whose get_issue raised.
C10_EveryKeyReported ==
    mpc = "returned" =>
       /\ Len(ret.issues) = Len(keys)
       /\ \A k \in DOMAIN keys : \E i \in DOMAIN ret.issues : ret.issues[i].key = keys[k]

\* the positions <<history, item>> of the status items of a changelog, and the
\* event a position stands for
StatusPositions(h) ==
    {p \in (1..Len(h)) \X (1..2) :
        p[2] <= Len(h[p[1]].items) /\ h[p[1]].items[p[2]].field = "status"}
EventAt(h, p) ==
    << h[p[1]].items[p[2]].fromString, h[p[1]].items[p[2]].toString, h[p[1]].created.t >>

\* C11: when every timestamp parses, extract_status_changes returns one
\* event per status item and nothing else, each with the item's fromString
\* and toString and its history entry's timestamp, ordered by timestamp
\* non-decreasing, events of equal timestamp in their order in the changelog.
C11_ExtractSorted ==
    (call = "extract_status_changes" /\ "value" \in DOMAIN out) =>
       LET v == out.value
           h == input.changelog
       IN  /\ Len(v) = Cardinality(StatusPositions(h))
           /\ \A p \in StatusPositions(h) :
                 Cardinality({k \in DOMAIN v : v[k] = EventAt(h, p)})
                 = Cardinality({r \in StatusPositions(h) : EventAt(h, r) = EventAt(h, p)})
           /\ \A a, b \in DOMAIN v : a < b => v[a][3] <= v[b][3]
           /\ \A t \in Instants :
                 SelectSeq(v, LAMBDA e : e[3] = t)
                 = SelectSeq(CollectChanges(h), LAMBDA e : e[3] = t)

\* an out-of-order changelog with an entry without status item and two
\* different events of one timestamp
C11_Witness ==
    /\ call = "extract_status_changes"
    /\ "value" \in DOMAIN out
    /\ Len(input.changelog) = 2
    /\ input.changelog[1].created.t > input.changelog[2].created.t
    /\ \E k \in 1..(Len(out.value) - 1) :
          out.value[k][3] = out.value[k + 1][3] /\ out.value[k] # out.value[k + 1]
    /\ \E i \in 1..2 : input.changelog[i].items[1].field # "status"

\* C12: when one history entry carries a timestamp that cannot be parsed,
\* extract_status_changes does not fail: it returns the events of the
\* well-formed entries.
C12_SkipsMalformedEntry ==
    (/\ call = "extract_status_changes"
     /\ \E i \in DOMAIN input.changelog : input.changelog[i].created = Garbage) =>
       /\ "value" \in DOMAIN out
       /\ out.value = extract_status_changes(
             [input EXCEPT !.changelog =
                 SelectSeq(input.changelog, LAMBDA h : h.created # Garbage)])

\* C13: for an issue with a creation time, the segments compute_time_in_status
\* builds start at created, each ends where the next starts, the last ends at
\* now, and their ranges [start, end) are pairwise disjoint and cover
\* exactly [created, now).
C13_SegmentsCoverCreatedToNow ==
    (/\ call = "compute_time_in_status"
     /\ "segments" \in DOMAIN out
     /\ input.fields.created.kind = "iso") =>
       LET segs == out.segments
           created == input.fields.created.t
           Range(s) == {t \in 0..clock : s[2] <= t /\ t < s[3]}
       IN  /\ segs # <<>>
           /\ segs[1][2] = created
           /\ \A i \in 1..(Len(segs) - 1) : segs[i][3] = segs[i + 1][2]
           /\ segs[Len(segs)][3] = clock
           /\ \A i, j \in DOMAIN segs : i # j => Range(segs[i]) \cap Range(segs[j]) = {}
           /\ UNION {Range(segs[i]) : i \in DOMAIN segs}
              = {t \in 0..clock : created <= t /\ t < clock}

\* C14: for an issue with a creation time and n >= 1 status events,
\* compute_time_in_status builds n + 1 segments: the first in the state
\* events[0].from (the issue's status field when that is null) from created
\* to events[0].timestamp, then for each event i one in the state events[i].to
\* that starts at events[i].timestamp.
C14_SegmentPerEventPlusOne ==
    (/\ call = "compute_time_in_status"
     /\ "segments" \in DOMAIN out
     /\ input.fields.created.kind = "iso"
     /\ StatusPositions(input.changelog) # {}) =>
       LET segs == out.segments
           events == extract_status_changes(input)
           n == Cardinality(StatusPositions(input.changelog))
       IN  /\ Len(segs) = n + 1
           /\ segs[1][1] = (IF events[1][1] # "" THEN events[1][1]
                            ELSE input.fields.status.name)
           /\ segs[1][2] = input.fields.created.t
           /\ segs[1][3] = events[1][3]
           /\ \A i \in 1..n : segs[i + 1][1] = events[i][2] /\ segs[i + 1][2] = events[i][3]

\* two events, the earlier one with a null from-state
C14_Witness ==
    /\ call = "compute_time_in_status"
    /\ "segments" \in DOMAIN out
    /\ input.fields.created.kind = "iso"
    /\ Len(out.segments) = 3
    /\ extract_status_changes(input)[1][1] = ""
    /\ out.segments[1][1] = input.fields.status.name
    /\ out.segments[1][2] < out.segments[1][3]

\* C15: every segment built for an issue has start <= end, both the segments
\* of compute_time_in_status and the segments of build_timeline_data, with
\* or without an end_date.
C15_SegmentStartNotAfterEnd ==
    /\ (call = "compute_time_in_status" /\ "segments" \in DOMAIN out) =>
          \A i \in DOMAIN out.segments : out.segments[i][2] <= out.segments[i][3]
    /\ call = "build_timeline_data" =>
          \A i \in DOMAIN out.data.issues :
             \A j \in DOMAIN out.data.issues[i].segments :
                out.data.issues[i].segments[j].start <= out.data.issues[i].segments[j].end

\* C16: in the report built from a timeline, every clipped segment that is
\* added to the per-status totals or rendered satisfies
\* timeline_start <= start < end <= timeline_end; the segments rendered are
\* those that share an instant with the window, and the total of a status is
\* the time its tracked segments spend inside the window, so a segment wholly
\* outside the window is not rendered and adds nothing.
C16_ClippedInsideWindow ==
    call = "build_timeline_data" =>
       \A i \in DOMAIN out.report :
          LET row == out.report[i]
              segs == out.data.issues[i].segments
              lo == out.data.timeline_start
              hi == out.data.timeline_end
              Inside(c) == lo <= c.start /\ c.start < c.end /\ c.end <= hi
              InWindow(j, t) == /\ segs[j].start <= t /\ t < segs[j].end
                                /\ lo <= t /\ t < hi
              HoursOf(j) == {t \in 0..clock : InWindow(j, t)}
              HoursIn(status) ==
                  {p \in {j \in DOMAIN segs : segs[j].tracked /\ segs[j].status = status}
                         \X (0..clock) : InWindow(p[1], p[2])}
          IN  /\ \A k \in DOMAIN row.counted : Inside(row.counted[k])
              /\ \A k \in DOMAIN row.rendered : Inside(row.rendered[k])
              /\ Len(row.rendered) = Cardinality({j \in DOMAIN segs : HoursOf(j) # {}})
              /\ Len(row.counted)
                 = Cardinality({j \in DOMAIN segs : segs[j].tracked /\ HoursOf(j) # {}})
              /\ DOMAIN row.time_in_status
                 = {segs[j].status : j \in {k \in DOMAIN segs : segs[k].tracked /\ HoursOf(k) # {}}}
              /\ \A status \in DOMAIN row.time_in_status :
                    row.time_in_status[status] = SecondsPerHour * Cardinality(HoursIn(status))

\* one segment wholly before the window and one cut by timeline_start
C16_Witness ==
    /\ call = "build_timeline_data"
    /\ Len(out.report) = 1
    /\ \E j \in DOMAIN out.data.issues[1].segments :
          LET s == out.data.issues[1].segments[j]
          IN  s.tracked /\ s.start < s.end /\ s.end <= out.data.timeline_start
    /\ \E j \in DOMAIN out.data.issues[1].segments :
          LET s == out.data.issues[1].segments[j]
          IN  s.tracked /\ s.start < out.data.timeline_start /\ out.data.timeline_start < s.end
    /\ Len(out.report[1].counted) = 1
    /\ out.report[1].counted[1].start = out.data.timeline_start

\* C17: for an issue with no status event, a creation time and a current
\* status, compute_time_in_status builds exactly one segment, in the current
\* status from created to now, and the totals have that status alone.
C17_NoEventsOneSegment ==
    (/\ call = "compute_time_in_status"
     /\ "segments" \in DOMAIN out
     /\ StatusPositions(input.changelog) = {}
     /\ input.fields.created.kind = "iso"
     /\ input.fields.status.name # "") =>
       /\ out.segments = << <<input.fields.status.name, input.fields.created.t, clock>> >>
       /\ DOMAIN out.value = {input.fields.status.name}

\* a changelog that has an entry but no status item
C17_Witness ==
    /\ call = "compute_time_in_status"
    /\ "segments" \in DOMAIN out
    /\ input.changelog # <<>>
    /\ StatusPositions(input.changelog) = {}
    /\ input.fields.created.kind = "iso"
    /\ input.fields.created.t > 0
    /\ Len(out.segments) = 1

\* C18: build_timeline_data called with a start_date that is not before its
\* end_date rejects the request: it does not go past its entry, starts no
\* worker, and does not return a timeline with timeline_start >= timeline_end.
C18_RejectsInvertedWindow ==
    (/\ fn = "build_timeline_data"
     /\ start_date.kind = "iso" /\ end_date.kind = "iso"
     /\ start_date.t >= end_date.t) =>
       /\ mpc \in {"setup", "raised"}
       /\ started = 0
       /\ mpc = "raised" => "raises" \in DOMAIN ret

\* C19: when the parsed sprint_start is not before sprint_end,
\* analyze_sprint_patterns raises ValueError at once: no progress callback
\* is invoked, no key is queued (search_jql has not run), no worker is
\* started and no issue is fetched.
C19_SprintWindowRejectedEagerly ==
    (/\ fn = "analyze_sprint_patterns"
     /\ ~sprint_dates_raise
     /\ sprint_start >= sprint_end) =>
       /\ mpc \in {"setup", "raised"}
       /\ mpc = "raised" => ret = [raises |-> "ValueError"]
       /\ progress = <<>>
       /\ q = <<>> /\ unfinished = 0
       /\ started = 0
       /\ \A w \in Workers : pc[w] = "unstarted" /\ issue[w] = ""
       /\ results = <<>>

\* a rejected window whose end, given at midnight, was moved to the end of
\* its day, over a JQL that matches issues
C19_Witness ==
    /\ fn = "analyze_sprint_patterns"
    /\ ~sprint_dates_raise
    /\ sprint_start >= sprint_end
    /\ sprint_end > window[2].t
    /\ keys # <<>>
    /\ mpc = "raised"

\* C20: the totals compute_time_in_status returns give, for each state, the
\* sum in seconds of (end - start) over the issue's segments in that state
\* (172800 for a state held for two days).
C20_TotalsInSeconds ==
    (call = "compute_time_in_status" /\ "value" \in DOMAIN out) =>
       \A status \in DOMAIN out.value :
          LET segs == out.segments
              Forward == {p \in (DOMAIN segs) \X (0..clock) :
                            /\ segs[p[1]][1] = status
                            /\ segs[p[1]][2] <= p[2] /\ p[2] < segs[p[1]][3]}
              Backward == {p \in (DOMAIN segs) \X (0..clock) :
                            /\ segs[p[1]][1] = status
                            /\ segs[p[1]][3] <= p[2] /\ p[2] < segs[p[1]][2]}
          IN  out.value[status]
              = SecondsPerHour * (Cardinality(Forward) - Cardinality(Backward))

\* C21: business_hours_overlap(start, end, cfg) is the time [start, end]
\* shares with the daily windows [day_start, day_end] of the days that are
\* not excluded, counted hour by hour; from Friday 16:00 to Monday 10:00
\* with hours 09:00-17:00 and weekends excluded it is 2 hours.
C21_OverlapIsSumOfDailyWindows ==
    call = "business_hours_overlap" =>
       LET bh == input.bh
           Excluded(d) ==
               \/ bh.exclude_weekends /\ d % 7 \in {5, 6}
               \/ \E i \in DOMAIN bh.holidays :
                     bh.holidays[i].kind = "date" /\ bh.holidays[i].day = d
           InWindow(h) ==
               /\ ~Excluded(h \div HoursPerDay)
               /\ bh.start.hour <= h % HoursPerDay
               /\ h % HoursPerDay < bh.end.hour
       IN  /\ out.whole
              = Cardinality({h \in (Friday * HoursPerDay)..((Friday + MaxDays) * HoursPerDay) :
                                input.s <= h /\ h < input.e /\ InWindow(h)})
           /\ (/\ input.s = Friday * HoursPerDay + 16
               /\ input.e = (Friday + 3) * HoursPerDay + 10
               /\ bh.start = HHMM(9) /\ bh.end = HHMM(17)
               /\ bh.exclude_weekends /\ bh.holidays = <<>>) => out.whole = 2

\* Friday 16:00 to Monday 10:00, 09:00-17:00, weekends excluded
C21_Witness ==
    /\ call = "business_hours_overlap"
    /\ input.s = Friday * HoursPerDay + 16
    /\ input.e = (Friday + 3) * HoursPerDay + 10
    /\ input.bh.start = HHMM(9) /\ input.bh.end = HHMM(17)
    /\ input.bh.exclude_weekends /\ input.bh.holidays = <<>>
    /\ out.whole = 2

\* C22: business_hours_overlap is never negative, never more than the
\* wall-clock length of [start, end], and 0 whenever end <= start.
C22_OverlapBounded ==
    call = "business_hours_overlap" =>
       /\ out.whole >= 0
       /\ input.e <= input.s => out.whole = 0
       /\ input.s < input.e => out.whole <= input.e - input.s

\* an interval over several days that is partly business time
C22_Witness ==
    /\ call = "business_hours_overlap"
    /\ DateOf(input.s) < DateOf(input.e)
    /\ 0 < out.whole
    /\ out.whole < input.e - input.s

C24_ExcludedDaysAddNothing ==
    call = "business_hours_overlap" =>
       LET bh == input.bh
           Excluded(d) ==
               \/ bh.exclude_weekends /\ d % 7 \in {5, 6}
               \/ DateStr(d) \in {bh.holidays[i] : i \in DOMAIN bh.holidays}
           Counted == {h \in (Friday * HoursPerDay)..((Friday + MaxDays) * HoursPerDay) :
                          /\ input.s <= h /\ h < input.e
                          /\ bh.start.hour <= h % HoursPerDay
                          /\ h % HoursPerDay < bh.end.hour}
       IN  /\ (/\ input.s <= input.e
               /\ DateOf(input.s) = DateOf(input.e)
               /\ Excluded(DateOf(input.s))) => out.whole = 0
           /\ out.whole = Cardinality({h \in Counted : ~Excluded(h \div HoursPerDay)})

\* the business hours of the Saturday, weekends excluded
C24_Witness ==
    /\ call = "business_hours_overlap"
    /\ input.bh.exclude_weekends
    /\ input.bh.start = HHMM(9) /\ input.bh.end = HHMM(17)
    /\ input.s = (Friday + 1) * HoursPerDay + 9
    /\ input.e = (Friday + 1) * HoursPerDay + 17
    /\ out.whole = 0

\* C25: for a configuration whose day start is not before its day end,
\* business_hours_overlap returns no duration: the call ends with an error.
C25_InvertedHoursRejected ==
    (/\ call = "business_hours_overlap"
     /\ parse_time_hhmm(input.bh.start) >= parse_time_hhmm(input.bh.end)) =>
       "raises" \in DOMAIN out

\* C26: count_sequence_occurrences returns 0 for every event list when the
\* sequence has fewer than two states, and 0 for the empty event list with
\* any sequence.
C26_NoPatternOrNoEventsGivesZero ==
    (/\ call = "count_returned"
     /\ Len(input.sequence) < 2 \/ input.changes = <<>>) =>
       "value" \in DOMAIN out /\ out.value = 0

\* a one-state sequence with a full event list
C26_Witness ==
    /\ call = "count_returned"
    /\ Len(input.sequence) = 1
    /\ Len(input.changes) = MaxEvents
    /\ out = [value |-> 0]

\* C27: for an event list that is k complete repetitions, back to back, of
\* the sequence's adjacent pairs, count_sequence_occurrences returns k; for
\* Open, InProgress, Done and the events Open->InProgress,
\* InProgress->Done, Open->InProgress, InProgress->Done it returns 2.
C27_RepetitionsCounted ==
    (call = "count_returned" /\ Len(input.sequence) >= 2) =>
       LET seq == input.sequence
           m == Len(seq) - 1
           ev == input.changes
       IN  (/\ Len(ev) % m = 0
            /\ \A i \in DOMAIN ev :
                  /\ ev[i][1] = seq[((i - 1) % m) + 1]
                  /\ ev[i][2] = seq[((i - 1) % m) + 2]) =>
              out.value = Len(ev) \div m

\* the claim's example
C27_Witness ==
    /\ call = "count_returned"
    /\ input.sequence = << "Open", "InProgress", "Done" >>
    /\ input.changes = << << "Open", "InProgress", 1 >>, << "InProgress", "Done", 2 >>,
                          << "Open", "InProgress", 3 >>, << "InProgress", "Done", 4 >> >>
    /\ out.value = 2

\* C28: for a sequence A, B, C, an event list with an A->B event and a
\* later B->C event counts at least one occurrence, whatever events lie
\* between the two.
C28_FollowedLaterCounts ==
    (call = "count_returned" /\ Len(input.sequence) = 3) =>
       LET seq == input.sequence
           ev == input.changes
       IN  (\E i, j \in DOMAIN ev :
               /\ i < j
               /\ ev[i][1] = seq[1] /\ ev[i][2] = seq[2]
               /\ ev[j][1] = seq[2] /\ ev[j][2] = seq[3]) =>
              out.value >= 1

\* C29: count_sequence_occurrences returns the number of occurrences of the
\* sequence's adjacent pairs as a run of consecutive events, taken greedily
\* from left to right without overlap: a run that starts at or after the end
\* of the last counted one is counted.
C29_GreedyContiguousCount ==
    (call = "count_returned" /\ Len(input.sequence) >= 2) =>
       LET seq == input.sequence
           m == Len(seq) - 1
           ev == input.changes
           n == Len(ev)
           RunAt(p) == /\ p + m - 1 <= n
                       /\ \A k \in 1..m : /\ ev[p + k - 1][1] = seq[k]
                                          /\ ev[p + k - 1][2] = seq[k + 1]
           greedy[p \in 1..(n + 1)] ==
               IF p > n THEN 0
               ELSE IF RunAt(p) THEN 1 + greedy[p + m]
               ELSE greedy[p + 1]
       IN  out.value = greedy[1]

\* C30: every loop iteration of count_sequence_occurrences is a step of the
\* matcher: if the event is the pair_index-th required pair, pair_index
\* advances, and completing the last pair adds 1 to count and resets
\* pair_index to 0; otherwise pair_index becomes 1 if the event is the first
\* pair and 0 if not, and count is unchanged.  An event that is both the
\* needed and the first pair continues the match in progress.
C30_StepsOfTheMatcher ==
    [][(call = "count_loop" /\ call' = "count_loop") =>
          LET seq == input.sequence
              last == Len(seq) - 1
              e == input.changes[out.i + 1]
              IsPair(k) == e[1] = seq[k] /\ e[2] = seq[k + 1]
          IN  /\ out'.i = out.i + 1
              /\ IsPair(out.pair_index + 1) =>
                    IF out.pair_index + 1 = last
                    THEN out'.count = out.count + 1 /\ out'.pair_index = 0
                    ELSE out'.count = out.count /\ out'.pair_index = out.pair_index + 1
              /\ ~IsPair(out.pair_index + 1) =>
                    /\ out'.count = out.count
                    /\ out'.pair_index = (IF IsPair(1) THEN 1 ELSE 0)]_vars

\* the third pair of Open, InProgress, Open, InProgress, Done, which is
\* also its first pair, has continued the match in progress
C30_Witness ==
    /\ call = "count_loop"
    /\ Len(input.sequence) = 5
    /\ out.i = 3
    /\ out.pair_index = 3

\* C31: every occurrence counted by count_sequence_occurrences is a real one
\* and no event belongs to two counted occurrences: each iteration that adds
\* 1 to count ends a block of len(sequence) - 1 consecutive events equal, in
\* order, to the adjacent pairs of the sequence, the blocks of two increments
\* are disjoint, and count * (len(sequence) - 1) <= len(events).
C31_CountedOccurrencesAreDisjointBlocks ==
    (call = "count_returned" /\ Len(input.sequence) >= 2) =>
       LET ch == input.changes
           np == needed_pairs(input.sequence)
           m == Len(np)
           n == Len(ch)
           st[p \in 0..n] ==
               IF p = 0 THEN [i |-> 0, pair_index |-> 0, count |-> 0]
               ELSE loop_body(ch, np, st[p - 1])
           Inc == { p \in 1..n : st[p].count = st[p - 1].count + 1 }
       IN  /\ out.value = st[n].count
           /\ Cardinality(Inc) = out.value
           /\ \A p \in Inc :
                 /\ p >= m
                 /\ \A k \in 1..m : /\ ch[p - m + k][1] = np[k][1]
                                    /\ ch[p - m + k][2] = np[k][2]
           /\ \A p \in Inc : \A r \in Inc : p < r => r - p >= m
           /\ out.value * m <= n

\* two occurrences of Open, InProgress, Done were counted over six events
C31_Witness ==
    /\ call = "count_returned"
    /\ input.sequence = << "Open", "InProgress", "Done" >>
    /\ Len(input.changes) = 6
    /\ out.value >= 2

C33_RaisingCallbackDoesNotStopBatch ==
    (fn = "export_csv" /\ mpc = "start" /\ started = PoolSize /\ unfinished > 0) =>
       \E w \in Pool : pc[w] \notin {"raised", "exited"}

\* C34: in export_csv and build_timeline_data, in every reachable state in
\* which no worker holds the lock done_count equals the number of records in
\* the shared result list; done_count never decreases, never exceeds total,
\* and equals total when q.join() has returned.
C34_DoneCountTracksResults ==
    /\ [](fn \in {"export_csv", "build_timeline_data"} =>
            /\ lock = 0 => done_count = Len(results)
            /\ done_count <= total
            /\ JoinReturned => done_count = total)
    /\ [][(fn \in {"export_csv", "build_timeline_data"}) => (done_count' >= done_count)]_vars

\* build_timeline_data halfway: two of three records appended and counted,
\* the lock free, the main thread still in q.join()
C34_Witness ==
    /\ fn = "build_timeline_data"
    /\ total = 3
    /\ lock = 0
    /\ done_count = 2
    /\ Len(results) = 2
    /\ ~JoinReturned

C36_PairIndexInRange ==
    (call = "count_loop" /\ out.i < Len(input.changes)) =>
       /\ Len(input.sequence) >= 2
       /\ 0 <= out.pair_index
       /\ out.pair_index < Len(needed_pairs(input.sequence))

\* an iteration that starts after one occurrence was counted, with the last
\* pair of the next one needed
C36_Witness ==
    /\ call = "count_loop"
    /\ out.i < Len(input.changes)
    /\ out.count = 1
    /\ out.pair_index = Len(needed_pairs(input.sequence)) - 1
    /\ Len(input.sequence) = 3

C38_NamesStayUnique ==
    /\ [](/\ \A i \in DOMAIN queries : \A j \in DOMAIN queries :
               queries[i].name = queries[j].name => i = j
          /\ config_file.exists =>
               \A i \in DOMAIN config_file.content : \A j \in DOMAIN config_file.content :
                  config_file.content[i].name = config_file.content[j].name => i = j)
    /\ [][(call' = "add_query" /\ name_exists(queries, input'.name)) =>
             (out'.value = FALSE /\ queries' = queries)]_vars

\* add_query was refused for a name whose entry holds another jql; both
\* names are in the list and in the file
C38_Witness ==
    /\ call = "add_query"
    /\ out.value = FALSE
    /\ Len(queries) = 2
    /\ \E i \in DOMAIN queries : queries[i].name = input.name /\ queries[i].jql # input.jql
    /\ config_file.exists
    /\ config_file.content = queries

\* C39: whenever add_query, update_query or delete_query returns False, the
\* in-memory query list is the same as before the call, both when the name
\* check fails and when writing the config file fails.
C39_FalseLeavesListUnchanged ==
    [][(call' \in {"add_query", "update_query", "delete_query"} /\ out'.value = FALSE) =>
          queries' = queries]_vars

====
